---- MODULE Spec2Model ----
(***************************************************************************)
(* Orchestration engine of the video artifact processing worker:           *)
(*   - the store (Episodes / Quotes / Shorts rows),                        *)
(*   - the queue (visible, delayed, in-flight and dead-lettered messages), *)
(*   - SQSPoller (start_polling, _process_message_batch, outcome routing,  *)
(*     _ensure_flags_after_success),                                       *)
(*   - process_video_message (the per-message pipeline),                   *)
(*   - ECSTaskProtectionManager (critical sessions, the protection lease   *)
(*     and its background extension loop).                                 *)
(* Every worker process runs one SQSPoller and, inside it, at most one     *)
(* pipeline run.  Workers share the store and the queue.                   *)
(***************************************************************************)
EXTENDS Integers, Sequences, FiniteSets, TLC

\* ------------------------------------------------------------------------
\* Bounds of the model
\* ------------------------------------------------------------------------
MaxQuotes == 1
MaxShorts == 1
MaxFaults == 1
MaxBatch == 2
MaxReceiveCount == 2

\* ------------------------------------------------------------------------
\* Program constants
\* ------------------------------------------------------------------------
NotReadyLimit == 3
RequeueDelay == 180
FlagRetries == 3

\* ECSTaskProtectionManager.__init__ (aws/ecs_task_protection.py 32-41)
protection_extension_interval == 900
protection_buffer == 300
check_interval == 30
max_protection_duration == 7200
min_protection_time == 120

Workers == {"w1", "w2"}
EpisodeId == "E1"
MasterUrl == "master.m3u8"

VARIABLES
  episode,      \* the Episodes row of EpisodeId
  quotes,       \* the Quotes rows of the episode, in quoteRank order
  shorts,       \* the Shorts rows of the episode, in startMs order
  visible,      \* queue: messages that a receive call can return
  delayed,      \* queue: messages sent with DelaySeconds, not yet visible
  hidden,       \* queue: received messages that no consumer holds any more
  dlq,          \* messages the broker moved to the dead-letter queue
  deployed,     \* the worker processes that exist
  cpc,          \* per worker: position of the SQSPoller
  is_running,   \* per worker: SQSPoller.is_running
  draining,     \* per worker: SQSPoller.draining
  not_ready_counts, \* per worker: SQSPoller.not_ready_counts[EpisodeId]
  batch,        \* per worker: valid messages of the batch not yet handled
  cur,          \* per worker: the message being handled
  route,        \* per worker: queue calls made for the current message
  ens,          \* per worker: locals of _ensure_flags_after_success
  ppc,          \* per worker: position of process_video_message
  loc,          \* per worker: locals of process_video_message
  faults,       \* number of environment failures injected so far
  critical_sessions,    \* per worker: ECSTaskProtectionManager.critical_sessions
  protection_enabled,   \* per worker: ECSTaskProtectionManager.protection_enabled
  protection_duration,  \* per worker: seconds since protection_start_time,
                        \* -1 when protection_start_time is None
  lease_remaining,      \* per worker: seconds until the protection of the
                        \* task expires at the environment, 0 when unprotected
  due,          \* per worker: the background loop has slept check_interval
  ecs_available,\* per worker: ecs_client and task_arn are set
  mgr,          \* per worker: "running", "forced" (cleanup_on_exit is past
                \* force_disable_protection) or "stopped" (shutdown was called)
  voluntary_shutdown_requested, \* per worker: the global of main.py
  protection_lock,  \* per worker: "free", or what its holder is about to do
  shutdown_pc,      \* per worker: position of the thread inside shutdown()
  spot_mode,        \* per worker: the global of main.py (FARGATE_SPOT)
  strict_block,     \* per worker: STRICT_BLOCK_SIGTERM is set
  spot_termination_imminent,  \* per worker: the global of main.py
  mainpc,           \* per worker: position of poll_and_process_sqs_messages
  max_wait_time,    \* per worker: local of the drain watchdog
  waited_time,      \* per worker: local of the drain watchdog
  watchdog_result,  \* per worker: how the watchdog loop ended
  sigterm_pos,      \* per worker: where process_video_message was when the
                    \* first draining SIGTERM arrived ("none" before it)
  adv_lock,         \* per row key: the transaction that holds its advisory
                    \* lock at the database, "none" when it is free
  row_version,      \* per row key: number of committed updates of the row
  txn,              \* per caller of the database layer: the call it makes
                    \* and the position of run_transaction_with_retry
  consecutive_failures, \* per worker: the local of _protection_manager_loop
  sqs_visibility_timeout_seconds,  \* Config.sqs_visibility_timeout_seconds
  visibility_left,  \* seconds until the message in hand becomes visible
                    \* again at the queue, 0 when it is visible
  hb_pc,            \* position of the _visibility_heartbeat task
  settings,         \* protection_extension_interval (E), protection_buffer
                    \* (B) and check_interval (C) of the manager
  requested_minutes,\* expiresInMinutes of the last update_task_protection
                    \* request, 0 before the first
  status,           \* the dict get_protection_status returned last
  sig_pc            \* position of signal_handler on the main thread

storeVars == <<episode, quotes, shorts>>
queueVars == <<visible, delayed, hidden, dlq>>
pollerVars == <<cpc, is_running, draining, not_ready_counts, batch, cur,
                route, ens>>
pipeVars == <<ppc, loc>>
lockVars == <<protection_lock, shutdown_pc>>
dbVars == <<adv_lock, row_version, txn>>
hbVars == <<sqs_visibility_timeout_seconds, visibility_left, hb_pc>>
statVars == <<settings, requested_minutes, status>>
sideVars == <<hbVars, statVars, sig_pc>>
superVars == <<spot_mode, strict_block, spot_termination_imminent, mainpc,
               max_wait_time, waited_time, watchdog_result, sigterm_pos>>
leaseVars == <<protection_enabled, protection_duration, lease_remaining>>
mgrVars == <<protection_enabled, protection_duration, lease_remaining, due,
             ecs_available, mgr, voluntary_shutdown_requested, lockVars,
             superVars, dbVars, consecutive_failures, sideVars>>
protVars == <<critical_sessions, protection_enabled, protection_duration,
              lease_remaining, due, ecs_available, mgr,
              voluntary_shutdown_requested, lockVars, superVars, dbVars,
              consecutive_failures, sideVars>>
vars == <<episode, quotes, shorts, visible, delayed, hidden, dlq, deployed,
          cpc, is_running, draining, not_ready_counts, batch, cur,
          route, ens, ppc, loc, faults, critical_sessions,
          protection_enabled, protection_duration, lease_remaining, due,
          ecs_available, mgr, voluntary_shutdown_requested,
          protection_lock, shutdown_pc, spot_mode, strict_block,
          spot_termination_imminent, mainpc, max_wait_time, waited_time,
          watchdog_result, sigterm_pos, adv_lock, row_version, txn,
          consecutive_failures, sqs_visibility_timeout_seconds,
          visibility_left, hb_pc, settings, requested_minutes, status,
          sig_pc>>

\* ------------------------------------------------------------------------
\* Store rows
\* ------------------------------------------------------------------------
\* processingInfo: `present' is FALSE for NULL or {} (both falsy in Python);
\* a flag that is absent reads as FALSE through dict.get.
NoPI == [present |-> FALSE, quotingDone |-> FALSE, chunkingDone |-> FALSE,
         videoQuotingDone |-> FALSE, videoChunkingDone |-> FALSE]

PIs == { [present |-> TRUE, quotingDone |-> qd, chunkingDone |-> cd,
          videoQuotingDone |-> vq, videoChunkingDone |-> vc] :
            qd \in BOOLEAN, cd \in BOOLEAN, vq \in BOOLEAN, vc \in BOOLEAN }

\* The initial processingInfo values: written by the upstream stages only
InitPIs == { p \in PIs : (p.videoQuotingDone => p.quotingDone)
                      /\ (p.videoChunkingDone => p.chunkingDone) }
           \cup {NoPI}

ContentTypes == {"video", "Video", "audio"}

\* A Quotes row.  master: additionalData.videoMasterPlaylistPath ("" when
\* absent); audio: quoteAudioUrl is non-empty; valid: the quote has a quote
\* text, a context text and a length of at least one second; fresh: the
\* workers whose validation marker is not later than the row's updatedAt.
QuoteKinds ==
  { [ct |-> "audio", master |-> "", audio |-> TRUE, valid |-> TRUE, fresh |-> {}],
    [ct |-> "video", master |-> MasterUrl, audio |-> TRUE, valid |-> TRUE, fresh |-> {}],
    [ct |-> "video", master |-> "", audio |-> TRUE, valid |-> TRUE, fresh |-> {}],
    [ct |-> "audio", master |-> "", audio |-> TRUE, valid |-> FALSE, fresh |-> {}] }

\* A Shorts row.  valid: not removed and at least one second long;
\* transcript: the transcript is non-blank.
ShortKinds ==
  { [ct |-> "audio", master |-> "", audio |-> TRUE, valid |-> TRUE, transcript |-> TRUE, fresh |-> {}],
    [ct |-> "video", master |-> MasterUrl, audio |-> TRUE, valid |-> TRUE, transcript |-> TRUE, fresh |-> {}],
    [ct |-> "audio", master |-> "", audio |-> TRUE, valid |-> FALSE, transcript |-> TRUE, fresh |-> {}],
    [ct |-> "audio", master |-> "", audio |-> TRUE, valid |-> TRUE, transcript |-> FALSE, fresh |-> {}] }

SeqsUpTo(S, n) == UNION { [1..k -> S] : k \in 0..n }

Lower(ct) == IF ct = "Video" THEN "video" ELSE ct

\* main.py: _has_master_playlist
_has_master_playlist(obj) == obj.master # ""

\* main.py: _is_valid_chunk
_is_valid_chunk(ch) == ch.valid

\* main.py: _is_quote_processed
_is_quote_processed(q) == Lower(q.ct) = "video" /\ _has_master_playlist(q)

\* main.py: _is_chunk_processed
_is_chunk_processed(c) ==
  _is_valid_chunk(c) /\ Lower(c.ct) = "video" /\ _has_master_playlist(c)

\* main.py: _all_quotes_processed
_all_quotes_processed(qs) ==
  \A i \in DOMAIN qs : _is_quote_processed(qs[i])

\* main.py: _all_chunks_processed
_all_chunks_processed(cs) ==
  \A i \in DOMAIN cs : _is_valid_chunk(cs[i]) => _is_chunk_processed(cs[i])

\* sqs_handler.py: SQSPoller._is_valid_quote
poller_is_valid_quote(q) == q.valid

\* sqs_handler.py: SQSPoller._is_quote_processed
poller_is_quote_processed(q) == q.audio /\ Lower(q.ct) = "video"

\* sqs_handler.py: SQSPoller._is_chunk_processed
poller_is_chunk_processed(c) ==
  _is_valid_chunk(c) /\ c.audio /\ Lower(c.ct) = "video"


\* ------------------------------------------------------------------------
\* Repository write operations (aws/db_operations.py)
\* ------------------------------------------------------------------------
\* update_episode_processing_flags: the jsonb_set merge on processingInfo.
\* wq / wc: the flag is passed as True (otherwise it is passed as None).
update_episode_processing_flags(row, wq, wc) ==
  IF ~wq /\ ~wc THEN row
  ELSE [row EXCEPT !.pi = [@ EXCEPT !.present = TRUE,
                                    !.videoQuotingDone = IF wq THEN TRUE ELSE @,
                                    !.videoChunkingDone = IF wc THEN TRUE ELSE @]]

\* update_episode_item: write the columns of the in-memory episode that
\* differ from the current row (processingInfo, contentType).
update_episode_item(row, item) ==
  [row EXCEPT !.pi = IF item.pi.present /\ item.pi # row.pi THEN item.pi ELSE @,
              !.contentType = IF item.contentType # row.contentType
                              THEN item.contentType ELSE @]

\* The outcomes of a write transaction: committed, skipped because the
\* advisory lock was not available (returns False), or raised after the
\* retries of run_transaction_with_retry.
TxnOutcomes == {"ok", "skipped", "error"}

\* ------------------------------------------------------------------------
\* process_video_message: decisions
\* ------------------------------------------------------------------------
\* Inventory reads (main.py 689-721)
ReadsQuotes(pi) == pi.quotingDone /\ ~pi.videoQuotingDone
ReadsChunks(pi) == pi.chunkingDone /\ ~pi.videoChunkingDone

all_quotes_of(pi, qs) == IF ReadsQuotes(pi) THEN qs ELSE << >>
all_chunks_of(pi, cs) == IF ReadsChunks(pi) THEN cs ELSE << >>

\* Filter pending (main.py 738-741)
quotes_to_process(pi, qs) ==
  { i \in DOMAIN all_quotes_of(pi, qs) : ~_is_quote_processed(qs[i]) }

chunks_to_process(pi, cs) ==
  { i \in DOMAIN all_chunks_of(pi, cs) :
      cs[i].transcript /\ _is_valid_chunk(cs[i]) /\ ~_is_chunk_processed(cs[i]) }

\* Fast finalize (main.py 762-768): the flags to set when nothing is pending
FastFinalizeWantQ(pi, qs) ==
  LET aq == all_quotes_of(pi, qs)
      quotes_all_done == IF Len(aq) > 0 THEN _all_quotes_processed(aq) ELSE TRUE
  IN quotes_all_done /\ Len(aq) > 0

FastFinalizeWantC(pi, cs) ==
  LET ac == all_chunks_of(pi, cs)
  IN IF Len(ac) > 0 THEN _all_chunks_processed(ac) ELSE TRUE

FastFinalizeWrites(pi, qs, cs) ==
  LET aq == all_quotes_of(pi, qs)
      quotes_all_done == IF Len(aq) > 0 THEN _all_quotes_processed(aq) ELSE TRUE
  IN quotes_all_done \/ FastFinalizeWantC(pi, cs)

\* Advance flags (main.py 879-888): computed from a re-read of the store
AdvanceWantQ(pi, qs) ==
  LET final_quotes == IF pi.quotingDone THEN qs ELSE << >>
      w == IF Len(final_quotes) > 0 \/ pi.quotingDone
           THEN _all_quotes_processed(final_quotes) ELSE FALSE
  IN IF w /\ Len(final_quotes) = 0 THEN FALSE ELSE w

AdvanceWantC(pi, cs) ==
  LET final_chunks == IF pi.chunkingDone THEN cs ELSE << >>
  IN IF Len(final_chunks) > 0 \/ pi.chunkingDone
     THEN _all_chunks_processed(final_chunks) ELSE FALSE

\* validate_db_updates (main.py 406-525) for one category: pend are the
\* expected ids, res the ids the transcoder returned an output for.
ItemValid(w, r, expectedKnown) ==
  /\ Lower(r.ct) = "video"
  /\ r.master # ""
  /\ (expectedKnown => r.master = MasterUrl)
  /\ w \in r.fresh

validate_category(w, rows, pend, res) ==
  \/ pend = {}
  \/ /\ Cardinality(res) = Cardinality(pend)
     /\ \A i \in pend : ItemValid(w, rows[i], i \in res)

\* ------------------------------------------------------------------------
\* SQSPoller._ensure_flags_after_success: decisions (sqs_handler.py 456-467)
\* ------------------------------------------------------------------------
EnsureWantQ(pi, qs) ==
  LET rel == { i \in DOMAIN qs : poller_is_valid_quote(qs[i]) }
      all_quotes_done == \A i \in rel : poller_is_quote_processed(qs[i])
  IN all_quotes_done /\ ~pi.videoQuotingDone

EnsureWantC(pi, cs) ==
  LET rel == { i \in DOMAIN cs : _is_valid_chunk(cs[i]) }
      all_shorts_done == \A i \in rel : poller_is_chunk_processed(cs[i])
  IN all_shorts_done /\ ~pi.videoChunkingDone

\* SQSPoller._both_video_flags_done
_both_video_flags_done(ep) ==
  ep.exists /\ ep.pi.videoChunkingDone /\ ep.pi.videoQuotingDone

\* get_episode_processing_status: None (read as {}) when the row is absent
StatusOf(ep) == IF ep.exists THEN ep.pi ELSE NoPI


\* ------------------------------------------------------------------------
\* Queue messages
\* ------------------------------------------------------------------------
\* body: a JSON body with episodeId = EpisodeId, or a body that
\* validate_message rejects; rc: the broker's receive count of the message.
BadBody == "bad"
Bodies == {EpisodeId, BadBody}
MsgTypes == [body : Bodies, rc : 0..MaxReceiveCount]
NoMsg == [body |-> "none", rc |-> 0]
EmptyQ == [m \in MsgTypes |-> 0]

QAdd(q, m) == [q EXCEPT ![m] = @ + 1]
QDel(q, m) == [q EXCEPT ![m] = @ - 1]
QSize(q) ==
  LET RECURSIVE Sum(_)
      Sum(S) == IF S = {} THEN 0
                ELSE LET m == CHOOSE x \in S : TRUE IN q[m] + Sum(S \ {m})
  IN Sum(MsgTypes)

RECURSIVE QAddAll(_, _)
QAddAll(q, ms) == IF ms = << >> THEN q ELSE QAddAll(QAdd(q, Head(ms)), Tail(ms))

validate_message_all(body) == TRUE

\* SQSPoller.validate_message
validate_message(body) == body # BadBody

\* ------------------------------------------------------------------------
\* Locals
\* ------------------------------------------------------------------------
NoItem == [contentType |-> "none", pi |-> NoPI]
NoLoc == [item |-> NoItem, pi |-> NoPI, qpend |-> {}, cpend |-> {},
          rq |-> {}, rcs |-> {}, failure |-> "none", is_critical |-> FALSE,
          want_q |-> FALSE, want_c |-> FALSE,
          attempt |-> 0, outcome |-> "none"]
NoEns == [want_q |-> FALSE, want_c |-> FALSE, attempt |-> 0, flags_ok |-> FALSE]
NoRoute == [outcome |-> "none", deleteCalls |-> 0, deleted |-> FALSE,
            sendCalls |-> 0, sent |-> 0, sentBody |-> "none", delay |-> 0,
            metrics |-> 0, final |-> FALSE, count |-> 0]

\* ------------------------------------------------------------------------
\* Initial states
\* ------------------------------------------------------------------------
AbsentEpisode == [exists |-> FALSE, contentType |-> "audio", pi |-> NoPI,
                  videoLocation |-> "missing"]

Episodes ==
  { [exists |-> TRUE, contentType |-> ct, pi |-> p, videoLocation |-> vl] :
      ct \in ContentTypes, p \in InitPIs,
      vl \in {"ok", "missing", "unparseable"} }
  \cup {AbsentEpisode}

QueueOf(n, k) ==
  [m \in MsgTypes |-> IF m.rc # 0 THEN 0 ELSE IF m.body = EpisodeId THEN n ELSE k]

OneMessage == QueueOf(1, 0)
OneInvalid == QueueOf(0, 1)

\* One message, or two messages of which at most one is invalid
InitQueues == {OneMessage, OneInvalid, QueueOf(1, 1), QueueOf(1 + 1, 0)}
OnePerWorker == QueueOf(Cardinality(Workers), 0)

\* The tokens of critical_sessions: the startup baseline, the id of the
\* processing session, the guard added by the SIGTERM handler
BaselineToken == "baseline_protection"
SessionToken == "session"
GuardToken == "scale_in_guard"
\* The tokens that callers of add_critical_session and
\* remove_critical_session pass (main.py 228-233, 299)
Tokens == {SessionToken, GuardToken}

\* ECSTaskProtectionManager.add_critical_session / remove_critical_session
add_critical_session(S, t) == S \cup {t}
remove_critical_session(S, t) == S \ {t}

\* ECSTaskProtectionManager.__init__ (lines 52-62): the background loop is
\* started when the ECS client and the task ARN are available; the baseline
\* token is added when proactive protection is configured.
InitMgr(A, B) ==
  /\ ecs_available \in { f \in [Workers -> BOOLEAN] :
                           \A w \in Workers : IF w \in deployed THEN f[w] \in A
                                               ELSE ~f[w] }
  /\ critical_sessions \in
       { f \in [Workers -> {{}, {BaselineToken}}] :
           \A w \in Workers : IF w \in deployed
                               THEN /\ (BaselineToken \in f[w]) \in B
                                    /\ BaselineToken \in f[w] => ecs_available[w]
                               ELSE f[w] = {} }
  /\ protection_enabled = [w \in Workers |-> FALSE]
  /\ protection_duration = [w \in Workers |-> -1]
  /\ lease_remaining = [w \in Workers |-> 0]
  /\ due = ecs_available
  /\ mgr = [w \in Workers |-> "running"]
  /\ voluntary_shutdown_requested = [w \in Workers |-> FALSE]
  /\ protection_lock = [w \in Workers |-> "free"]
  /\ shutdown_pc = [w \in Workers |-> "idle"]
  /\ consecutive_failures = [w \in Workers |-> 0]

InitCore(D, Q, E, QS, SS) ==
  /\ episode \in E
  /\ quotes \in QS
  /\ shorts \in SS
  /\ (~episode.exists => quotes = << >> /\ shorts = << >>)
  /\ visible \in Q
  /\ delayed = EmptyQ
  /\ hidden = EmptyQ
  /\ dlq = EmptyQ
  /\ deployed = D
  /\ cpc = [w \in Workers |-> "new"]
  /\ is_running = [w \in Workers |-> FALSE]
  /\ draining = [w \in Workers |-> FALSE]
  /\ not_ready_counts = [w \in Workers |-> 0]
  /\ batch = [w \in Workers |-> << >>]
  /\ cur = [w \in Workers |-> NoMsg]
  /\ route = [w \in Workers |-> NoRoute]
  /\ ens = [w \in Workers |-> NoEns]
  /\ ppc = [w \in Workers |-> "idle"]
  /\ loc = [w \in Workers |-> NoLoc]
  /\ faults = 0

\* The globals of main.py when poll_and_process_sqs_messages is entered
\* (lines 89-111), with the capacity mode in SM and the STRICT_BLOCK_SIGTERM
\* setting in SB
InitSuper(SM, SB) ==
  /\ spot_mode \in { f \in [Workers -> BOOLEAN] :
                       \A w \in Workers : IF w \in deployed THEN f[w] \in SM
                                           ELSE ~f[w] }
  /\ strict_block \in { f \in [Workers -> BOOLEAN] :
                          \A w \in Workers : IF w \in deployed THEN f[w] \in SB
                                              ELSE ~f[w] }
  /\ spot_termination_imminent = [w \in Workers |-> FALSE]
  /\ mainpc = [w \in Workers |-> "starting"]
  /\ max_wait_time = [w \in Workers |-> 0]
  /\ waited_time = [w \in Workers |-> 0]
  /\ watchdog_result = [w \in Workers |-> "none"]
  /\ sigterm_pos = [w \in Workers |-> "none"]

\* The callers of the database layer (two concurrent connections)
Txns == {"t1", "t2"}

\* The keys (scope, entity id) of the advisory locks: two Quotes rows and
\* one Episodes row
Rows == {"q1", "q2", "e1"}

\* The write operations of db_operations.py that are modelled call by call
Ops == {"update_quote", "update_quotes", "update_quote_additional_data",
        "update_episode_processing_flags"}

\* The local state of one call: op "none" is a caller that makes no call
NewCall(op) ==
  [op |-> op, pc |-> IF op = "none" THEN "idle" ELSE "connect",
   attempt |-> 0, invoked |-> 0, todo |-> << >>, locked |-> {},
   missed |-> {}, pending |-> {}, tries |-> 0, slept |-> FALSE,
   fnres |-> "none", result |-> "none", last_exc |-> "none", wrote |-> {}]

\* No lock is held and no update is committed; every caller makes one of
\* the calls of OPS
InitDb(OPS) ==
  /\ adv_lock = [r \in Rows |-> "none"]
  /\ row_version = [r \in Rows |-> 0]
  /\ txn \in [Txns -> {NewCall(op) : op \in OPS}]

\* The settings of ECSTaskProtectionManager.__init__ (lines 32-34)
DefaultSettings ==
  [E |-> protection_extension_interval, B |-> protection_buffer,
   C |-> check_interval]

\* No status was asked for yet
NoStatus ==
  [started |-> FALSE, minutes_until_expiry |-> 0,
   gap_safety_margin_seconds |-> 0, gap_protection_safe |-> FALSE]

\* No message is in hand, no request was made and no signal is being
\* handled; the visibility timeout is one of T, the settings one of S
InitSide(T, S) ==
  /\ sqs_visibility_timeout_seconds \in T
  /\ visibility_left = 0
  /\ hb_pc = "off"
  /\ settings \in S
  /\ requested_minutes = 0
  /\ status = NoStatus
  /\ sig_pc = [w \in Workers |-> "none"]

\* SQS_VISIBILITY_TIMEOUT_SECONDS when the environment does not set it
DefaultVisibility == {300}

InitDefaults(OPS) == InitDb(OPS) /\ InitSide(DefaultVisibility, {DefaultSettings})

\* The worker runs in ECS with proactive protection (the defaults)
InitWith(D, Q, E, QS, SS) ==
  /\ InitCore(D, Q, E, QS, SS)
  /\ InitMgr({TRUE}, {TRUE})
  /\ InitSuper({FALSE}, {FALSE})
  /\ InitDefaults({"none"})

AllQuotes == SeqsUpTo(QuoteKinds, MaxQuotes)
AllShorts == SeqsUpTo(ShortKinds, MaxShorts)

Init == InitWith({"w1"}, {OneMessage, OneInvalid}, Episodes, AllQuotes, AllShorts)


\* ------------------------------------------------------------------------
\* process_video_message (main.py 573-975), one action per step
\* ------------------------------------------------------------------------
Fault == faults < MaxFaults /\ faults' = faults + 1
NoFault == faults' = faults
\* A failure inside a retry loop: the first failed attempt is the injected
\* failure, the later attempts of the same loop may fail with it.
LoopFault(attempt) == IF attempt = 0 THEN Fault ELSE NoFault

cleanup_keeps_session(S, is_critical) == S

\* ProcessingSession.cleanup (main.py 235-242): the token of a session that
\* is still critical is removed
cleanup(S, is_critical) ==
  IF is_critical THEN remove_critical_session(S, SessionToken) ELSE S

\* Every return of process_video_message: set_critical(False) on the
\* NotReady and the Failed paths (main.py 873, 925, 957), session.cleanup()
\* in the finally clause (main.py 970-975)
Return(w, out) ==
  /\ ppc' = [ppc EXCEPT ![w] = "done"]
  /\ loc' = [loc EXCEPT ![w] = [NoLoc EXCEPT !.outcome = out]]
  /\ critical_sessions' =
       [critical_sessions EXCEPT ![w] = cleanup(@, loc[w].is_critical)]

\* Load and preconditions (main.py 586-688)
LoadOutcome(ep) ==
  IF ~ep.exists \/ Lower(ep.contentType) # "video" THEN "Success"
  ELSE IF ~ep.pi.present THEN "Failed"
  ELSE IF ep.videoLocation = "missing" THEN "Success"       \* lines 656-660
  ELSE IF ep.videoLocation = "unparseable" THEN "Failed"    \* lines 661-669
  ELSE "continue"

Load(w) ==
  /\ ppc[w] = "load"
  /\ \/ /\ Fault            \* create_processing_session raises (line 586)
        /\ Return(w, "Raised")
     \/ /\ voluntary_shutdown_requested[w]   \* lines 592-594
        /\ NoFault
        /\ Return(w, "Failed")
     \/ /\ ~voluntary_shutdown_requested[w]
        /\ Fault            \* get_episode_by_id raises (lines 632-640)
        /\ Return(w, "Failed")
     \/ /\ ~voluntary_shutdown_requested[w]
        /\ NoFault
        /\ IF LoadOutcome(episode) = "continue"
           THEN /\ ppc' = [ppc EXCEPT ![w] = "inventory"]
                /\ loc' = [loc EXCEPT ![w].item = [contentType |-> episode.contentType,
                                                   pi |-> episode.pi],
                                      ![w].pi = episode.pi]
                /\ UNCHANGED critical_sessions
           ELSE Return(w, LoadOutcome(episode))
  /\ UNCHANGED <<mgrVars, storeVars, queueVars, deployed, pollerVars>>

AlreadyCompleteNever(pi) == FALSE

\* The short-circuit test (main.py 723-736)
AlreadyComplete(pi) == pi.videoChunkingDone /\ pi.videoQuotingDone

\* Inventory, short-circuit, filter pending, fast-finalize decision
\* (main.py 689-768)
Inventory(w) ==
  LET pi == loc[w].pi
      qp == quotes_to_process(pi, quotes)
      cp == chunks_to_process(pi, shorts)
  IN
  /\ ppc[w] = "inventory"
  /\ IF AlreadyComplete(pi)
     THEN Return(w, "Success")
     ELSE IF qp = {} /\ cp = {}
     THEN IF FastFinalizeWrites(pi, quotes, shorts)
          THEN /\ ppc' = [ppc EXCEPT ![w] =
                            IF loc[w].item.contentType # "video"
                            THEN "ff_episode" ELSE "ff_flags"]
               /\ loc' = [loc EXCEPT ![w].want_q = FastFinalizeWantQ(pi, quotes),
                                     ![w].want_c = FastFinalizeWantC(pi, shorts),
                                     ![w].attempt = 0]
               /\ UNCHANGED critical_sessions
          ELSE Return(w, "Success")
     ELSE /\ ppc' = [ppc EXCEPT ![w] = "mark"]
          /\ loc' = [loc EXCEPT ![w].qpend = qp, ![w].cpend = cp]
          /\ UNCHANGED critical_sessions
  /\ UNCHANGED <<mgrVars, storeVars, queueVars, deployed, pollerVars, faults>>

\* Capture of validation_marker (main.py 818): no row written before this
\* point has updatedAt >= the marker of w.
Unfresh(rows, w) == [i \in DOMAIN rows |-> [rows[i] EXCEPT !.fresh = @ \ {w}]]

\* session.set_critical(True) (main.py 810, 199-210) and the capture of the
\* validation marker
MarkCritical(w) ==
  /\ ppc[w] = "mark"
  /\ quotes' = Unfresh(quotes, w)
  /\ shorts' = Unfresh(shorts, w)
  /\ ppc' = [ppc EXCEPT ![w] = "produce"]
  /\ loc' = [loc EXCEPT ![w].is_critical = TRUE]
  /\ critical_sessions' =
       [critical_sessions EXCEPT ![w] = add_critical_session(@, SessionToken)]
  /\ UNCHANGED <<mgrVars, episode, queueVars, deployed, pollerVars, faults>>

\* The per-item work of the transcoder: the row of every item in `done'
\* gets contentType = video and the master playlist URL, updatedAt = now.
WriteItems(rows, done) ==
  [i \in DOMAIN rows |->
     IF i \in done
     THEN [rows[i] EXCEPT !.ct = "video", !.master = MasterUrl, !.fresh = Workers]
     ELSE rows[i]]

\* process_video_artifacts_unified (tools/video_artifacts_cutting_process.py
\* 38-132).  An exception outside the download and the category tasks
\* propagates to main.py 928 and the run returns Failed; a failed download
\* is logged and the empty results are returned (lines 79-88); a category
\* task that raises is logged and contributes no results (lines 115-129).
\* loc.failure records which of the two was logged.
Produce(w) ==
  /\ ppc[w] = "produce"
  /\ \/ /\ Return(w, "Failed")
        /\ UNCHANGED <<quotes, shorts>>
     \/ /\ UNCHANGED <<quotes, shorts>>
        /\ ppc' = [ppc EXCEPT ![w] = "validate1"]
        /\ loc' = [loc EXCEPT ![w].rq = {}, ![w].rcs = {},
                              ![w].failure = "download"]
        /\ UNCHANGED critical_sessions
     \/ \E wq \in SUBSET loc[w].qpend, wc \in SUBSET loc[w].cpend,
           exq \in BOOLEAN, exc \in BOOLEAN :
          /\ exq => loc[w].qpend # {}
          /\ exc => loc[w].cpend # {}
          /\ quotes' = WriteItems(quotes, wq)
          /\ shorts' = WriteItems(shorts, wc)
          /\ ppc' = [ppc EXCEPT ![w] = "validate1"]
          /\ loc' = [loc EXCEPT ![w].rq = IF exq THEN {} ELSE wq,
                                ![w].rcs = IF exc THEN {} ELSE wc,
                                ![w].failure = IF exq \/ exc THEN "category"
                                               ELSE "none"]
          /\ UNCHANGED critical_sessions
  /\ UNCHANGED <<mgrVars, episode, queueVars, deployed, pollerVars, faults>>

\* Validate and validation retry (main.py 840-874)
ValidationAlwaysOk(w) == TRUE

ValidationOk(w) ==
  /\ validate_category(w, quotes, loc[w].qpend, loc[w].rq)
  /\ validate_category(w, shorts, loc[w].cpend, loc[w].rcs)

\* One call of validate_db_updates: a snapshot read that raises gives
\* (False, False) (main.py 434-438).
Validate(w) ==
  /\ ppc[w] \in {"validate1", "validate2"}
  /\ \E readOk \in BOOLEAN :
       /\ IF readOk THEN NoFault ELSE Fault
       /\ IF readOk /\ ValidationOk(w)
          THEN /\ ppc' = [ppc EXCEPT ![w] = "advance"]
               /\ UNCHANGED <<loc, critical_sessions>>
          ELSE IF ppc[w] = "validate1"
          THEN /\ ppc' = [ppc EXCEPT ![w] = "validate2"]
               /\ UNCHANGED <<loc, critical_sessions>>
          ELSE Return(w, "NotReady")
  /\ UNCHANGED <<mgrVars, storeVars, queueVars, deployed, pollerVars>>

\* Advance flags: re-read and decision (main.py 876-891)
Advance(w) ==
  LET pi == loc[w].pi
      wq == AdvanceWantQ(pi, quotes)
      wc == AdvanceWantC(pi, shorts)
  IN
  /\ ppc[w] = "advance"
  /\ IF wq \/ wc
     THEN /\ ppc' = [ppc EXCEPT ![w] =
                       IF loc[w].item.contentType # "video"
                       THEN "adv_episode" ELSE "adv_flags"]
          /\ loc' = [loc EXCEPT ![w].want_q = wq, ![w].want_c = wc,
                                ![w].attempt = 0]
          /\ UNCHANGED critical_sessions
     ELSE Return(w, "Success")
  /\ UNCHANGED <<mgrVars, storeVars, queueVars, deployed, pollerVars, faults>>

\* Promotion of Episode.contentType (main.py 771-776 and 893-898): the call
\* passes the episode object read at Load; its result is ignored.
EpisodeWrite(ep, item) ==
  update_episode_item(ep, [item EXCEPT !.contentType = "video"])

UpdateEpisode(w) ==
  /\ ppc[w] \in {"ff_episode", "adv_episode"}
  /\ \/ /\ NoFault
        /\ episode' = EpisodeWrite(episode, loc[w].item)
     \/ /\ Fault           \* lock not available, or the transaction raised
        /\ episode' = episode
  /\ ppc' = [ppc EXCEPT ![w] = IF ppc[w] = "ff_episode" THEN "ff_flags" ELSE "adv_flags"]
  /\ loc' = [loc EXCEPT ![w].item.contentType = "video"]
  /\ UNCHANGED critical_sessions
  /\ UNCHANGED <<mgrVars, quotes, shorts, queueVars, deployed, pollerVars>>

\* One attempt of the flag-setting loop (main.py 778-800 and 899-921):
\* update_episode_processing_flags, then the verifying re-read.
FlagAttempt(w) ==
  LET last == loc[w].attempt = FlagRetries - 1
      fast == ppc[w] = "ff_flags"
  IN
  /\ ppc[w] \in {"ff_flags", "adv_flags"}
  /\ \/ /\ NoFault         \* committed and verified
        /\ episode' = update_episode_processing_flags(episode, loc[w].want_q, loc[w].want_c)
        /\ Return(w, "Success")
     \/ /\ LoopFault(loc[w].attempt)  \* skipped (returned False)
        /\ loc[w].want_q \/ loc[w].want_c
        /\ episode' = episode
        /\ IF last THEN Return(w, "Success")
           ELSE /\ ppc' = ppc
                /\ loc' = [loc EXCEPT ![w].attempt = @ + 1]
                /\ UNCHANGED critical_sessions
     \/ /\ LoopFault(loc[w].attempt)  \* raised; re-raised on the last attempt
        /\ loc[w].want_q \/ loc[w].want_c
        /\ episode' = episode
        /\ IF last THEN Return(w, IF fast THEN "Success" ELSE "Failed")
           ELSE /\ ppc' = ppc
                /\ loc' = [loc EXCEPT ![w].attempt = @ + 1]
                /\ UNCHANGED critical_sessions
  /\ UNCHANGED <<mgrVars, quotes, shorts, queueVars, deployed, pollerVars>>


\* ------------------------------------------------------------------------
\* SQSPoller (sqs_handler.py)
\* ------------------------------------------------------------------------
\* start_polling, line 242
StartPolling(w) ==
  /\ w \in deployed
  /\ cpc[w] = "new"
  /\ cpc' = [cpc EXCEPT ![w] = "loop"]
  /\ is_running' = [is_running EXCEPT ![w] = TRUE]
  /\ UNCHANGED <<protVars, storeVars, queueVars, deployed, draining, not_ready_counts,
                 batch, cur, route, ens, pipeVars, faults>>

\* initiate_drain (sqs_handler.py 529-535), called by the SIGTERM handler
InitiateDrain(w) ==
  /\ w \in deployed
  /\ cpc[w] # "exited"
  /\ ~draining[w]
  /\ draining' = [draining EXCEPT ![w] = TRUE]
  /\ is_running' = [is_running EXCEPT ![w] = TRUE]
  /\ UNCHANGED <<protVars, storeVars, queueVars, deployed, cpc, not_ready_counts,
                 batch, cur, route, ens, pipeVars, faults>>

LoopBreaksOnStopOnly(w) == ~is_running[w]

\* The loop head (lines 253-257): leave when not running or draining
LoopBreaks(w) == ~is_running[w] \/ draining[w]

\* The batch loop head (lines 338-340)
BatchBreaks(w) == draining[w]

\* The check after the batch (lines 283-285)
AfterBatchBreaks(w) == draining[w]

LoopExit(w) ==
  /\ cpc[w] = "loop"
  /\ LoopBreaks(w)
  /\ cpc' = [cpc EXCEPT ![w] = "exited"]
  /\ UNCHANGED <<protVars, storeVars, queueVars, deployed, is_running, draining,
                 not_ready_counts, batch, cur, route, ens,
                 pipeVars, faults>>

\* A receive call returns up to max_messages visible messages and counts
\* the delivery; the broker does not deliver a message whose receive count
\* has reached the redrive limit.
Deliverable(m) == m.rc < MaxReceiveCount
Received(m) == [m EXCEPT !.rc = @ + 1]

RECURSIVE TakeAll(_, _)
TakeAll(q, ms) == IF ms = << >> THEN q ELSE TakeAll(QDel(q, Head(ms)), Tail(ms))

CanTake(q, ms) ==
  \A m \in MsgTypes : Cardinality({i \in DOMAIN ms : ms[i] = m}) <= q[m]

\* receive_messages (lines 160-188, 259-280): the messages received are in
\* flight and in the hands of the consumer
Receive(w) ==
  /\ cpc[w] = "loop"
  /\ ~LoopBreaks(w)
  /\ \E n \in 1..MaxBatch : \E ms \in [1..n -> {m \in MsgTypes : Deliverable(m)}] :
       /\ CanTake(visible, ms)
       /\ visible' = TakeAll(visible, ms)
       /\ batch' = [batch EXCEPT ![w] = [i \in 1..n |-> Received(ms[i])]]
  /\ cpc' = [cpc EXCEPT ![w] = "validate"]
  /\ NoFault
  /\ UNCHANGED <<protVars, storeVars, delayed, hidden, dlq, deployed, is_running,
                 draining, not_ready_counts, cur, route, ens, pipeVars>>

\* The validation part of _process_message_batch (lines 306-331): invalid
\* messages are deleted at once, the valid ones are kept for the handler.
ValidateBatch(w) ==
  /\ cpc[w] = "validate"
  /\ LET valid == SelectSeq(batch[w], LAMBDA m : validate_message(m.body))
         invalid == SelectSeq(batch[w], LAMBDA m : ~validate_message(m.body))
     IN /\ batch' = [batch EXCEPT ![w] = valid]
        /\ \/ /\ NoFault     \* delete_message succeeds
              /\ hidden' = hidden
           \/ /\ Fault       \* delete_message fails: left in flight
              /\ invalid # << >>
              /\ hidden' = QAddAll(hidden, invalid)
  /\ cpc' = [cpc EXCEPT ![w] = "next"]
  /\ UNCHANGED <<protVars, storeVars, visible, delayed, dlq, deployed, is_running,
                 draining, not_ready_counts, cur, route, ens, pipeVars>>

\* The head of the batch loop (lines 337-351) and the end of the batch
\* (lines 283-285): start the handler for the next message, or stop.
ReadyForNextEarly(w) == cpc[w] \in {"next", "routed"}

\* The for loop awaits the handler and routes its outcome before it takes
\* the next message of the batch.
ReadyForNext(w) == cpc[w] = "next"

NextMessage(w) ==
  /\ ReadyForNext(w)
  /\ batch[w] # << >>
  /\ ~BatchBreaks(w)
  /\ cur' = [cur EXCEPT ![w] = Head(batch[w])]
  /\ batch' = [batch EXCEPT ![w] = Tail(@)]
  /\ cpc' = [cpc EXCEPT ![w] = "handler"]
  /\ ppc' = [ppc EXCEPT ![w] = "load"]
  /\ loc' = [loc EXCEPT ![w] = NoLoc]
  /\ UNCHANGED <<protVars, storeVars, queueVars, deployed, is_running, draining,
                 not_ready_counts, route, ens, faults>>

BatchEnd(w) ==
  /\ cpc[w] = "next"
  /\ batch[w] = << >> \/ BatchBreaks(w)
  /\ hidden' = QAddAll(hidden, batch[w])   \* skipped messages stay in flight
  /\ batch' = [batch EXCEPT ![w] = << >>]
  /\ cpc' = [cpc EXCEPT ![w] = IF AfterBatchBreaks(w) THEN "exited" ELSE "loop"]
  /\ UNCHANGED <<protVars, storeVars, visible, delayed, dlq, deployed, is_running,
                 draining, not_ready_counts, cur, route, ens,
                 pipeVars, faults>>


\* delete_message(receipt_handle) followed, when doSend, by
\* requeue_message(message_body) (lines 189-231).  Both calls swallow their
\* exceptions; a failed call leaves the queue as it was.
QueueCalls(w, out, doSend, metric, final, count) ==
  \E delOk \in BOOLEAN, sendOk \in BOOLEAN :
    /\ ~doSend => sendOk
    /\ faults' = faults + (IF delOk THEN 0 ELSE 1) + (IF sendOk THEN 0 ELSE 1)
    /\ faults' <= MaxFaults
    /\ delayed' = IF doSend /\ sendOk
                  THEN QAdd(delayed, [body |-> cur[w].body, rc |-> 0])
                  ELSE delayed
    /\ route' = [route EXCEPT ![w] =
                   [outcome |-> out, deleteCalls |-> 1, deleted |-> delOk,
                    sendCalls |-> IF doSend THEN 1 ELSE 0,
                    sent |-> IF doSend /\ sendOk THEN 1 ELSE 0,
                    sentBody |-> IF doSend THEN cur[w].body ELSE "none",
                    delay |-> IF doSend THEN RequeueDelay ELSE 0,
                    metrics |-> IF metric THEN 1 ELSE 0,
                    final |-> final, count |-> count]]

HandlerReturned(w, outs) ==
  /\ cpc[w] = "handler"
  /\ ppc[w] = "done"
  /\ loc[w].outcome \in outs

PipelineIdle(w) ==
  /\ ppc' = [ppc EXCEPT ![w] = "idle"]
  /\ loc' = [loc EXCEPT ![w] = NoLoc]

\* _increment_not_ready (lines 90-94)
_increment_not_ready(n) == n + 1

EscalatesLate(count) == count > NotReadyLimit

\* Escalation test of the NotReady branch (line 384)
Escalates(count) == count >= NotReadyLimit

\* The NotReady branch (lines 382-393)
RouteNotReady(w) ==
  LET count == _increment_not_ready(not_ready_counts[w]) IN
  /\ HandlerReturned(w, {"NotReady"})
  /\ IF Escalates(count)
     THEN /\ QueueCalls(w, "NotReady", FALSE, TRUE, FALSE, count)
          /\ not_ready_counts' = [not_ready_counts EXCEPT ![w] = 0]
     ELSE /\ QueueCalls(w, "NotReady", TRUE, FALSE, FALSE, count)
          /\ not_ready_counts' = [not_ready_counts EXCEPT ![w] = count]
  /\ cpc' = [cpc EXCEPT ![w] = "routed"]
  /\ PipelineIdle(w)
  /\ UNCHANGED <<protVars, storeVars, visible, hidden, dlq, deployed, is_running,
                 draining, batch, cur, ens>>

RouteFailedRequeues(w) ==
  /\ HandlerReturned(w, {"Failed", "Raised"})
  /\ QueueCalls(w, loc[w].outcome, TRUE, FALSE, FALSE, not_ready_counts[w])
  /\ cpc' = [cpc EXCEPT ![w] = "routed"]
  /\ PipelineIdle(w)
  /\ UNCHANGED <<protVars, storeVars, visible, hidden, dlq, deployed, is_running,
                 draining, not_ready_counts, batch, cur, ens>>

RouteFailedResets(w) ==
  /\ HandlerReturned(w, {"Failed", "Raised"})
  /\ route' = [route EXCEPT ![w] = [NoRoute EXCEPT !.outcome = loc[w].outcome]]
  /\ not_ready_counts' = [not_ready_counts EXCEPT ![w] = 0]
  /\ cpc' = [cpc EXCEPT ![w] = "routed"]
  /\ PipelineIdle(w)
  /\ UNCHANGED <<protVars, storeVars, queueVars, deployed, is_running, draining,
                 batch, cur, ens, faults>>

\* The Failed branch and the except clause (lines 394-399)
RouteFailed(w) ==
  /\ HandlerReturned(w, {"Failed", "Raised"})
  /\ route' = [route EXCEPT ![w] = [NoRoute EXCEPT !.outcome = loc[w].outcome]]
  /\ cpc' = [cpc EXCEPT ![w] = "routed"]
  /\ PipelineIdle(w)
  /\ UNCHANGED <<protVars, storeVars, queueVars, deployed, is_running, draining,
                 not_ready_counts, batch, cur, ens, faults>>

\* _ensure_flags_after_success, reads and decision (lines 451-469)
EnsureRead(w) ==
  LET pi == StatusOf(episode)
      wq == EnsureWantQ(pi, quotes)
      wc == EnsureWantC(pi, shorts)
      okNow == (pi.videoQuotingDone /\ pi.videoChunkingDone) \/ ~(wq \/ wc)
  IN
  /\ HandlerReturned(w, {"Success"})
  /\ ens' = [ens EXCEPT ![w] = [want_q |-> wq /\ ~okNow, want_c |-> wc /\ ~okNow,
                                attempt |-> 0, flags_ok |-> okNow]]
  /\ cpc' = [cpc EXCEPT ![w] = IF okNow THEN "route_success" ELSE "ensure_flags"]
  /\ PipelineIdle(w)
  /\ UNCHANGED <<protVars, storeVars, queueVars, deployed, is_running, draining,
                 not_ready_counts, batch, cur, route, faults>>

\* One attempt of the loop of _ensure_flags_after_success (lines 471-489).
\* The UPDATE matches no row when the episode is absent and raises.
EnsureAttempt(w) ==
  LET last == ens[w].attempt = FlagRetries - 1 IN
  /\ cpc[w] = "ensure_flags"
  /\ \/ /\ NoFault
        /\ episode.exists
        /\ episode' = update_episode_processing_flags(episode, ens[w].want_q, ens[w].want_c)
        /\ ens' = [ens EXCEPT ![w].flags_ok = TRUE]
        /\ cpc' = [cpc EXCEPT ![w] = "route_success"]
     \/ /\ IF episode.exists THEN LoopFault(ens[w].attempt) ELSE NoFault
        /\ episode' = episode
        /\ IF last
           THEN /\ ens' = [ens EXCEPT ![w].flags_ok = FALSE]
                /\ cpc' = [cpc EXCEPT ![w] = "route_success"]
           ELSE /\ ens' = [ens EXCEPT ![w].attempt = @ + 1]
                /\ cpc' = cpc
  /\ UNCHANGED <<protVars, quotes, shorts, queueVars, deployed, is_running, draining,
                 not_ready_counts, batch, cur, route, pipeVars>>

\* The Success branch after the flags were ensured (lines 364-381)
PermanentDelete(w) == ens[w].flags_ok /\ _both_video_flags_done(episode)

RouteSuccess(w) ==
  /\ cpc[w] = "route_success"
  /\ IF PermanentDelete(w)
     THEN /\ QueueCalls(w, "Success", FALSE, FALSE, TRUE, not_ready_counts[w])
          /\ not_ready_counts' = [not_ready_counts EXCEPT ![w] = 0]
     ELSE /\ QueueCalls(w, "Success", TRUE, FALSE, FALSE, not_ready_counts[w])
          /\ not_ready_counts' = not_ready_counts
  /\ cpc' = [cpc EXCEPT ![w] = "routed"]
  /\ ens' = [ens EXCEPT ![w] = NoEns]
  /\ UNCHANGED <<protVars, storeVars, visible, hidden, dlq, deployed, is_running,
                 draining, batch, cur, pipeVars>>

\* End of the iteration for one message: a message that was not deleted
\* stays in flight at the broker until its visibility timeout lapses.
Continue(w) ==
  /\ cpc[w] = "routed"
  /\ hidden' = IF route[w].deleted THEN hidden ELSE QAdd(hidden, cur[w])
  /\ cur' = [cur EXCEPT ![w] = NoMsg]
  /\ route' = [route EXCEPT ![w] = NoRoute]
  /\ cpc' = [cpc EXCEPT ![w] = "next"]
  /\ UNCHANGED <<protVars, storeVars, visible, delayed, dlq, deployed, is_running,
                 draining, not_ready_counts, batch, ens, pipeVars, faults>>

\* ------------------------------------------------------------------------
\* The broker
\* ------------------------------------------------------------------------
DelayElapsed(m) ==
  /\ delayed[m] > 0
  /\ delayed' = QDel(delayed, m)
  /\ visible' = QAdd(visible, m)
  /\ UNCHANGED <<protVars, storeVars, hidden, dlq, deployed, pollerVars, pipeVars, faults>>

VisibilityTimeout(m) ==
  /\ hidden[m] > 0
  /\ hidden' = QDel(hidden, m)
  /\ visible' = QAdd(visible, m)
  /\ UNCHANGED <<protVars, storeVars, delayed, dlq, deployed, pollerVars, pipeVars, faults>>

DeadLetter(m) ==
  /\ visible[m] > 0
  /\ ~Deliverable(m)
  /\ visible' = QDel(visible, m)
  /\ dlq' = QAdd(dlq, m)
  /\ UNCHANGED <<protVars, storeVars, delayed, hidden, deployed, pollerVars, pipeVars, faults>>

\* ------------------------------------------------------------------------
\* ECSTaskProtectionManager (aws/ecs_task_protection.py)
\* ------------------------------------------------------------------------
workCore == <<storeVars, queueVars, deployed, pollerVars, pipeVars, dbVars,
              sideVars>>
workVars == <<workCore, consecutive_failures>>

\* expiresInMinutes of update_task_protection (lines 265-267, 337-339)
expiration_minutes_for(E, B) ==
  LET m == (E + B) \div 60
  IN IF m < 1 THEN 1 ELSE m

expiration_minutes ==
  expiration_minutes_for(protection_extension_interval, protection_buffer)

\* The lease the environment grants for expiresInMinutes, in seconds
LeaseSeconds == expiration_minutes * 60

\* _enable_task_protection (lines 257-329): a failed call is logged
_enable_task_protection(w) ==
  IF ~ecs_available[w] THEN NoFault /\ UNCHANGED leaseVars
  ELSE \/ /\ NoFault
          /\ protection_enabled' = [protection_enabled EXCEPT ![w] = TRUE]
          /\ protection_duration' = [protection_duration EXCEPT ![w] = 0]
          /\ lease_remaining' = [lease_remaining EXCEPT ![w] = LeaseSeconds]
       \/ /\ Fault
          /\ UNCHANGED leaseVars

_extend_task_protection_skipped(w) == NoFault /\ UNCHANGED leaseVars

\* _extend_task_protection (lines 331-368)
_extend_task_protection(w) ==
  IF ~ecs_available[w] THEN NoFault /\ UNCHANGED leaseVars
  ELSE \/ /\ NoFault
          /\ lease_remaining' = [lease_remaining EXCEPT ![w] = LeaseSeconds]
          /\ UNCHANGED <<protection_enabled, protection_duration>>
       \/ /\ Fault
          /\ UNCHANGED leaseVars

_disable_keeps_start_time(w) ==
  IF ~ecs_available[w] THEN NoFault /\ UNCHANGED leaseVars
  ELSE \/ /\ NoFault
          /\ protection_enabled' = [protection_enabled EXCEPT ![w] = FALSE]
          /\ lease_remaining' = [lease_remaining EXCEPT ![w] = 0]
          /\ UNCHANGED protection_duration
       \/ /\ Fault
          /\ UNCHANGED leaseVars

\* _disable_task_protection (lines 370-404)
_disable_task_protection(w) ==
  IF ~ecs_available[w] THEN NoFault /\ UNCHANGED leaseVars
  ELSE \/ /\ NoFault
          /\ protection_enabled' = [protection_enabled EXCEPT ![w] = FALSE]
          /\ protection_duration' = [protection_duration EXCEPT ![w] = -1]
          /\ lease_remaining' = [lease_remaining EXCEPT ![w] = 0]
       \/ /\ Fault
          /\ UNCHANGED leaseVars

CapExceededAfterMinHold(w) == protection_duration[w] > min_protection_time

CapExceededNever(w) == FALSE

\* The safety measure of the loop (lines 210-214)
CapExceeded(w) == protection_duration[w] > max_protection_duration

\* has_critical_sessions of the loop (lines 198, 214)
has_critical_sessions(w) == critical_sessions[w] # {} /\ ~CapExceeded(w)

MinHoldOverAtOnce(w) == TRUE

\* The minimum protection time test of the loop (lines 228-235)
MinHoldOver(w) == protection_duration[w] >= min_protection_time

\* The delay of the except clause of the loop (lines 249-250)
Backoff(n) ==
  LET e == IF n - 1 < 4 THEN n - 1 ELSE 4
      d == 30 * 2^e
  IN IF d < 300 THEN d ELSE 300

\* The sleep that ends an iteration of the loop (lines 236-253)
LoopSleep(w) ==
  IF consecutive_failures[w] = 0 THEN check_interval
  ELSE Backoff(consecutive_failures[w])

\* One iteration of _protection_manager_loop (lines 192-238)
BackgroundCheck(w) ==
  /\ w \in deployed
  /\ mgr[w] # "stopped"
  /\ ecs_available[w]
  /\ due[w]
  /\ due' = [due EXCEPT ![w] = FALSE]
  /\ IF has_critical_sessions(w) /\ ~protection_enabled[w]
     THEN _enable_task_protection(w)
     ELSE IF has_critical_sessions(w) /\ protection_enabled[w]
     THEN _extend_task_protection(w)
     ELSE IF protection_enabled[w] /\ MinHoldOver(w)
     THEN _disable_task_protection(w)
     ELSE NoFault /\ UNCHANGED leaseVars
  \* the three calls swallow their exceptions, so the body of the loop
  \* completes and the counter is reset (line 237)
  /\ consecutive_failures' = [consecutive_failures EXCEPT ![w] = 0]
  /\ UNCHANGED <<workCore, critical_sessions, ecs_available, mgr,
                 voluntary_shutdown_requested, lockVars, superVars>>

\* time.sleep(check_interval) of the loop (line 238): check_interval seconds
\* pass for the manager and for the lease at the environment
Tick ==
  /\ \E w \in deployed : mgr[w] # "stopped"
  /\ \A w \in deployed : mgr[w] = "stopped" \/ ~due[w]
  /\ protection_duration' =
       [w \in Workers |-> IF protection_duration[w] >= 0
                          THEN protection_duration[w] + check_interval
                          ELSE protection_duration[w]]
  /\ lease_remaining' =
       [w \in Workers |-> IF lease_remaining[w] > check_interval
                          THEN lease_remaining[w] - check_interval ELSE 0]
  /\ due' = [w \in Workers |-> ecs_available[w] /\ mgr[w] # "stopped"]
  /\ UNCHANGED <<workVars, critical_sessions, protection_enabled,
                 ecs_available, mgr, voluntary_shutdown_requested, lockVars, superVars,
                 faults>>

\* A client calls add_critical_session (lines 406-411)
AddCritical(w, t) ==
  /\ w \in deployed
  /\ mgr[w] = "running"
  /\ critical_sessions' =
       [critical_sessions EXCEPT ![w] = add_critical_session(@, t)]
  /\ UNCHANGED <<workVars, mgrVars, faults>>

\* A client calls remove_critical_session (lines 413-418)
RemoveCritical(w, t) ==
  /\ w \in deployed
  /\ mgr[w] = "running"
  /\ critical_sessions' =
       [critical_sessions EXCEPT ![w] = remove_critical_session(@, t)]
  /\ UNCHANGED <<workVars, mgrVars, faults>>

request_voluntary_shutdown_all(S) == {}

\* request_voluntary_shutdown (lines 458-474)
request_voluntary_shutdown(S) ==
  IF BaselineToken \in S THEN S \ {BaselineToken} ELSE S

\* request_voluntary_shutdown of main.py (lines 326-340)
RequestVoluntaryShutdown(w) ==
  /\ w \in deployed
  /\ mgr[w] = "running"
  /\ voluntary_shutdown_requested' =
       [voluntary_shutdown_requested EXCEPT ![w] = TRUE]
  /\ critical_sessions' =
       [critical_sessions EXCEPT ![w] = request_voluntary_shutdown(@)]
  /\ UNCHANGED <<workVars, leaseVars, due, ecs_available, mgr, lockVars, superVars,
                 faults>>

\* force_disable_protection (lines 476-494), which cleanup_on_exit calls
\* when critical sessions are left (main.py 350-356)
ForceDisable(w) ==
  /\ w \in deployed
  /\ mgr[w] = "running"
  /\ critical_sessions[w] # {}
  /\ IF protection_enabled[w]
     THEN /\ critical_sessions' = [critical_sessions EXCEPT ![w] = {}]
          /\ _disable_task_protection(w)
     ELSE /\ NoFault
          /\ UNCHANGED <<critical_sessions, leaseVars>>
  /\ mgr' = [mgr EXCEPT ![w] = "forced"]
  /\ UNCHANGED <<workVars, due, ecs_available, voluntary_shutdown_requested,
                 lockVars, superVars>>

\* shutdown (lines 496-509), which cleanup_on_exit calls last (main.py 361)
Shutdown(w) ==
  /\ w \in deployed
  /\ \/ mgr[w] = "forced"
     \/ mgr[w] = "running" /\ critical_sessions[w] = {}
  /\ IF protection_enabled[w]
     THEN _disable_task_protection(w)
     ELSE NoFault /\ UNCHANGED leaseVars
  /\ mgr' = [mgr EXCEPT ![w] = "stopped"]
  /\ UNCHANGED <<workVars, critical_sessions, due, ecs_available,
                 voluntary_shutdown_requested, lockVars, superVars>>

\* ------------------------------------------------------------------------
\* Specifications
\* ------------------------------------------------------------------------
PipelineStep(w) ==
  \/ Load(w) \/ Inventory(w) \/ MarkCritical(w) \/ Produce(w) \/ Validate(w)
  \/ Advance(w) \/ UpdateEpisode(w) \/ FlagAttempt(w)

PollerStep(w) ==
  \/ StartPolling(w) \/ LoopExit(w) \/ Receive(w) \/ ValidateBatch(w)
  \/ NextMessage(w) \/ BatchEnd(w) \/ RouteNotReady(w) \/ RouteFailed(w) \/ EnsureRead(w)
  \/ EnsureAttempt(w) \/ RouteSuccess(w) \/ Continue(w)

\* The polling loop of a consumer that is not asked to drain
PollerStepLive(w) ==
  \/ StartPolling(w) \/ Receive(w) \/ ValidateBatch(w) \/ NextMessage(w)
  \/ BatchEnd(w)
  \/ RouteNotReady(w) \/ RouteFailed(w) \/ EnsureRead(w) \/ EnsureAttempt(w)
  \/ RouteSuccess(w) \/ Continue(w)

BrokerStep == \E m \in MsgTypes : DelayElapsed(m) \/ VisibilityTimeout(m) \/ DeadLetter(m)

Next ==
  \/ \E w \in Workers : PipelineStep(w)
  \/ \E w \in Workers : PollerStep(w)
  \/ \E w \in Workers : InitiateDrain(w)
  \/ BrokerStep

Spec == Init /\ [][Next]_vars


\* One consumer over stores that produce each handler outcome: an absent
\* episode, and a video episode whose quotes are still to be cut.
PollerEpisodes ==
  { e \in Episodes : e.exists =>
       /\ e.videoLocation = "ok"
       /\ e.contentType = "Video"
       /\ e.pi.present /\ e.pi.quotingDone /\ e.pi.chunkingDone
       /\ ~e.pi.videoQuotingDone /\ ~e.pi.videoChunkingDone }

PendingQuote == [ct |-> "audio", master |-> "", audio |-> TRUE, valid |-> TRUE, fresh |-> {}]
InitPoller ==
  InitWith({"w1"}, InitQueues, PollerEpisodes, {<< >>, <<PendingQuote>>}, {<< >>})

SpecPoller == InitPoller /\ [][Next]_vars

\* Two worker processes consuming two messages of the same episode
ConcEpisodes ==
  { e \in Episodes : /\ e.exists
                     /\ Lower(e.contentType) = "video"
                     /\ e.videoLocation = "ok"
                     /\ e.pi.present /\ e.pi.quotingDone
                     /\ ~e.pi.videoQuotingDone /\ ~e.pi.videoChunkingDone }

InitConc ==
  InitWith(Workers, {OnePerWorker}, ConcEpisodes, AllQuotes, {<< >>})

NextConc ==
  \/ \E w \in Workers : PipelineStep(w)
  \/ \E w \in Workers : PollerStepLive(w)

SpecConc == InitConc /\ [][NextConc]_vars

\* A consumer that is never asked to drain, with the scheduling the event
\* loop and the broker guarantee: the polling loop keeps iterating, the
\* handler keeps running, delays and visibility timeouts elapse.
LiveEpisodes ==
  { e \in Episodes : (e.exists => e.pi.present /\ e.pi.quotingDone /\ e.pi.chunkingDone) }

InitLive ==
  InitWith({"w1"}, {OneMessage}, LiveEpisodes, AllQuotes, AllShorts)

NextLive ==
  \/ \E w \in Workers : PipelineStep(w)
  \/ \E w \in Workers : PollerStepLive(w)
  \/ BrokerStep

SpecLive ==
  /\ InitLive
  /\ [][NextLive]_vars
  /\ \A w \in Workers : WF_vars(PipelineStep(w)) /\ WF_vars(PollerStepLive(w))
  /\ WF_vars(BrokerStep)


\* One consumer handling one message, delivered once, of an episode whose
\* source video is present: an audio episode, or a video episode whose
\* contentType the run has to rewrite
PipeEpisodes ==
  { e \in Episodes : /\ e.exists
                     /\ e.contentType \in {"Video", "audio"}
                     /\ e.videoLocation = "ok" }

InitPipe ==
  InitWith({"w1"}, {OneMessage}, PipeEpisodes, AllQuotes, AllShorts)

SpecPipe == InitPipe /\ [][NextConc]_vars

\* The task protection manager of one worker, with its clients calling
\* its operations in any order while time passes
ManagerStep(w) ==
  \/ BackgroundCheck(w)
  \/ \E t \in Tokens : AddCritical(w, t)
  \/ \E t \in Tokens : RemoveCritical(w, t)
  \/ RequestVoluntaryShutdown(w)
  \/ ForceDisable(w)
  \/ Shutdown(w)

InitLease ==
  /\ InitCore({"w1"}, {OneMessage}, {AbsentEpisode}, {<< >>}, {<< >>})
  /\ InitMgr(BOOLEAN, BOOLEAN)
  /\ InitSuper({FALSE}, {FALSE})
  /\ InitDefaults({"none"})

NextLease ==
  \/ \E w \in Workers : ManagerStep(w)
  \/ Tick

SpecLease == InitLease /\ [][NextLease]_vars


\* The manager with the steps of its threads told apart: the background
\* loop takes protection_lock, decides, calls the environment and releases
\* the lock; shutdown() sets _shutdown and disables protection without
\* taking the lock; the other operations run under the lock.
Decisions == {"enable", "extend", "disable", "hold"}

\* The branch the loop takes (lines 198-235)
Decision(w) ==
  IF has_critical_sessions(w) /\ ~protection_enabled[w] THEN "enable"
  ELSE IF has_critical_sessions(w) /\ protection_enabled[w] THEN "extend"
  ELSE IF protection_enabled[w] /\ MinHoldOver(w) THEN "disable"
  ELSE "hold"

\* `while not self._shutdown` and `with self.protection_lock` (lines 192-214)
LoopLock(w) ==
  /\ w \in deployed
  /\ mgr[w] # "stopped"
  /\ ecs_available[w]
  /\ due[w]
  /\ protection_lock[w] = "free"
  /\ due' = [due EXCEPT ![w] = FALSE]
  /\ protection_lock' = [protection_lock EXCEPT ![w] = Decision(w)]
  /\ UNCHANGED <<workVars, critical_sessions, leaseVars, ecs_available, mgr,
                 voluntary_shutdown_requested, superVars, shutdown_pc, faults>>

\* The call of the branch taken and the release of the lock (lines 216-235)
LoopCall(w) ==
  /\ protection_lock[w] \in Decisions
  /\ IF protection_lock[w] = "enable" THEN _enable_task_protection(w)
     ELSE IF protection_lock[w] = "extend" THEN _extend_task_protection(w)
     ELSE IF protection_lock[w] = "disable" THEN _disable_task_protection(w)
     ELSE NoFault /\ UNCHANGED leaseVars
  /\ protection_lock' = [protection_lock EXCEPT ![w] = "free"]
  /\ consecutive_failures' = [consecutive_failures EXCEPT ![w] = 0]
  /\ UNCHANGED <<workCore, critical_sessions, due, ecs_available, mgr,
                 voluntary_shutdown_requested, superVars, shutdown_pc>>

\* shutdown: `self._shutdown = True` and the test of protection_enabled
\* (lines 498-502)
ShutdownBegin(w) ==
  /\ w \in deployed
  /\ shutdown_pc[w] = "idle"
  /\ \/ mgr[w] = "forced"
     \/ mgr[w] = "running" /\ critical_sessions[w] = {}
  /\ mgr' = [mgr EXCEPT ![w] = "stopped"]
  /\ shutdown_pc' = [shutdown_pc EXCEPT ![w] =
                       IF protection_enabled[w] THEN "disabling" ELSE "done"]
  /\ UNCHANGED <<workVars, critical_sessions, leaseVars, due, ecs_available,
                 voluntary_shutdown_requested, superVars, protection_lock, faults>>

\* shutdown: the call of _disable_task_protection (lines 503-504)
ShutdownDisable(w) ==
  /\ shutdown_pc[w] = "disabling"
  /\ _disable_task_protection(w)
  /\ shutdown_pc' = [shutdown_pc EXCEPT ![w] = "done"]
  /\ UNCHANGED <<workVars, critical_sessions, due, ecs_available, mgr,
                 voluntary_shutdown_requested, superVars, protection_lock>>

\* An operation that runs inside `with self.protection_lock`
UnderLock(w) ==
  /\ protection_lock[w] = "free"
  /\ \/ \E t \in Tokens : AddCritical(w, t)
     \/ \E t \in Tokens : RemoveCritical(w, t)
     \/ RequestVoluntaryShutdown(w)
     \/ ForceDisable(w)

\* The sleep of the loop, which holds no lock
TickUnlocked ==
  /\ \A w \in deployed : protection_lock[w] = "free"
  /\ Tick

NextLock ==
  \/ \E w \in Workers : LoopLock(w) \/ LoopCall(w)
  \/ \E w \in Workers : ShutdownBegin(w) \/ ShutdownDisable(w)
  \/ \E w \in Workers : UnderLock(w)
  \/ TickUnlocked

SpecLock == InitLease /\ [][NextLock]_vars


\* ------------------------------------------------------------------------
\* The supervisor: poll_and_process_sqs_messages, the signal handlers and
\* the drain watchdog (main.py 261-340, 978-1089)
\* ------------------------------------------------------------------------
EmergencyToken == "emergency_protection"

\* CRITICAL_SESSION_DRAIN_TIMEOUT and SPOT_DRAIN_TIMEOUT (main.py 1060-1061)
default_timeout == 30
spot_timeout == 95

Min(a, b) == IF a < b THEN a ELSE b
Max(a, b) == IF a > b THEN a ELSE b

\* check_interval of the watchdog (main.py 1063)
watchdog_interval(mw) == Min(10, Max(3, mw \div 5))

\* critical_sessions_count of get_protection_status
critical_sessions_count(w) == Cardinality(critical_sessions[w])

superRest == <<workVars, leaseVars, due, ecs_available, mgr,
               voluntary_shutdown_requested, lockVars, faults>>

\* The poller is created and exposed as global_sqs_poller; a failed health
\* check returns into the finally clause (main.py 993-1003)
CreatePoller(w) ==
  /\ w \in deployed
  /\ mainpc[w] = "starting"
  /\ \/ /\ NoFault
        /\ mainpc' = [mainpc EXCEPT ![w] = "polling"]
        /\ UNCHANGED <<max_wait_time, waited_time>>
     \/ /\ Fault
        /\ mainpc' = [mainpc EXCEPT ![w] = "watchdog"]
        /\ max_wait_time' = [max_wait_time EXCEPT ![w] =
              IF spot_mode[w] /\ spot_termination_imminent[w]
              THEN spot_timeout ELSE default_timeout]
        /\ waited_time' = [waited_time EXCEPT ![w] = 0]
  /\ UNCHANGED <<workVars, protection_enabled, protection_duration,
                 lease_remaining, due, ecs_available, mgr,
                 voluntary_shutdown_requested, lockVars, critical_sessions,
                 spot_mode, strict_block, spot_termination_imminent,
                 watchdog_result, sigterm_pos>>

\* The condition under which signal_handler treats SIGTERM as a drain
\* trigger (main.py 287)
DrainsOnSigterm(w) == spot_mode[w] \/ ~strict_block[w]

\* signal_handler(SIGTERM) (main.py 275-324)
SigTerm(w) ==
  /\ w \in deployed
  /\ mainpc[w] # "exited"
  /\ IF DrainsOnSigterm(w)
     THEN IF ~spot_termination_imminent[w]
          THEN /\ spot_termination_imminent' =
                    [spot_termination_imminent EXCEPT ![w] = TRUE]
               /\ sigterm_pos' = [sigterm_pos EXCEPT ![w] = ppc[w]]
               /\ IF mainpc[w] = "polling"      \* global_sqs_poller is set
                  THEN /\ draining' = [draining EXCEPT ![w] = TRUE]
                       /\ is_running' = [is_running EXCEPT ![w] = TRUE]
                  ELSE UNCHANGED <<draining, is_running>>
               /\ critical_sessions' = [critical_sessions EXCEPT ![w] =
                    IF critical_sessions_count(w) > 0
                    THEN add_critical_session(@, GuardToken) ELSE @]
          ELSE UNCHANGED <<spot_termination_imminent, sigterm_pos, draining,
                           is_running, critical_sessions>>
     ELSE /\ critical_sessions' = [critical_sessions EXCEPT ![w] =
               IF ecs_available[w] /\ ~protection_enabled[w]
               THEN add_critical_session(@, EmergencyToken) ELSE @]
          /\ UNCHANGED <<spot_termination_imminent, sigterm_pos, draining,
                         is_running>>
  /\ UNCHANGED <<storeVars, queueVars, deployed, cpc, not_ready_counts, batch,
                 cur, route, ens, pipeVars, leaseVars, due, ecs_available,
                 mgr, voluntary_shutdown_requested, lockVars, spot_mode,
                 strict_block, mainpc, max_wait_time, waited_time,
                 watchdog_result, dbVars, consecutive_failures, sideVars,
                 faults>>

\* voluntary_shutdown_handler(SIGUSR1) (main.py 261-273)
SigUsr1(w) ==
  /\ mainpc[w] # "exited"
  /\ RequestVoluntaryShutdown(w)

\* start_polling has returned: the finally clause stops the poller, clears
\* global_sqs_poller and starts the watchdog (main.py 1036-1044, 1057-1064)
PollingReturns(w) ==
  /\ mainpc[w] = "polling"
  /\ cpc[w] = "exited"
  /\ is_running' = [is_running EXCEPT ![w] = FALSE]
  /\ mainpc' = [mainpc EXCEPT ![w] = "watchdog"]
  /\ max_wait_time' = [max_wait_time EXCEPT ![w] =
        IF spot_mode[w] /\ spot_termination_imminent[w]
        THEN spot_timeout ELSE default_timeout]
  /\ waited_time' = [waited_time EXCEPT ![w] = 0]
  /\ UNCHANGED <<storeVars, queueVars, deployed, cpc, draining,
                 not_ready_counts, batch, cur, route, ens, pipeVars,
                 critical_sessions, leaseVars, due, ecs_available, mgr,
                 voluntary_shutdown_requested, lockVars, spot_mode,
                 strict_block, spot_termination_imminent, watchdog_result,
                 sigterm_pos, dbVars, consecutive_failures, sideVars, faults>>

\* One iteration of the loop of _wait_for_critical_sessions_completion, and
\* what follows the loop (main.py 1068-1089)
Watchdog(w) ==
  /\ mainpc[w] = "watchdog"
  /\ IF waited_time[w] < max_wait_time[w] /\ critical_sessions_count(w) # 0
     THEN /\ waited_time' = [waited_time EXCEPT ![w] =
                              @ + watchdog_interval(max_wait_time[w])]
          /\ UNCHANGED <<mainpc, watchdog_result, critical_sessions>>
     ELSE /\ watchdog_result' = [watchdog_result EXCEPT ![w] =
               IF waited_time[w] < max_wait_time[w] THEN "zero" ELSE "timeout"]
          /\ critical_sessions' = [critical_sessions EXCEPT ![w] =
               remove_critical_session(@, GuardToken)]
          /\ mainpc' = [mainpc EXCEPT ![w] = "await_voluntary"]
          /\ UNCHANGED waited_time
  /\ UNCHANGED <<superRest, spot_mode, strict_block,
                 spot_termination_imminent, max_wait_time, sigterm_pos>>

MayExitAfterDrain(w) == TRUE

\* The test of the wait loop at the end of the finally clause (main.py
\* 1047-1051)
MayExit(w) == voluntary_shutdown_requested[w]

\* poll_and_process_sqs_messages returns and the process exits
Exit(w) ==
  /\ mainpc[w] = "await_voluntary"
  /\ MayExit(w)
  /\ mainpc' = [mainpc EXCEPT ![w] = "exited"]
  /\ UNCHANGED <<superRest, critical_sessions, spot_mode, strict_block,
                 spot_termination_imminent, max_wait_time, waited_time,
                 watchdog_result, sigterm_pos>>

SupervisorStep(w) ==
  \/ CreatePoller(w) \/ PollingReturns(w) \/ Watchdog(w) \/ Exit(w)
  \/ SigTerm(w) \/ SigUsr1(w)

\* The poller and the handler run inside start_polling
PollingStep(w) ==
  /\ mainpc[w] = "polling"
  /\ PipelineStep(w) \/ PollerStep(w)

SuperEpisodes ==
  { e \in PollerEpisodes : e.exists }

InitSuperv ==
  /\ InitCore({"w1"}, {OneMessage}, SuperEpisodes, {<< >>, <<PendingQuote>>}, {<< >>})
  /\ InitMgr({TRUE}, BOOLEAN)
  /\ InitSuper(BOOLEAN, BOOLEAN)
  /\ InitDefaults({"none"})

NextSuper ==
  \/ \E w \in Workers : SupervisorStep(w)
  \/ \E w \in Workers : PollingStep(w)
  \/ \E w \in Workers : BackgroundCheck(w)

SpecSuper == InitSuperv /\ [][NextSuper]_vars


\* ------------------------------------------------------------------------
\* The database layer (db_operations.py)
\* ------------------------------------------------------------------------
\* max_attempts of run_transaction_with_retry (line 162)
max_attempts == 5

\* max_lock_retries of update_quote_additional_data (line 369)
max_lock_retries == 5

\* The exceptions a database call raises here: a deadlock report of the
\* server (pgcode 40P01) and an error that is neither a listed pgcode, nor
\* an OperationalError, nor a connection message (ValueError)
ErrorKinds == {"deadlock_detected", "value_error"}

_is_retryable_always(e) == TRUE

\* _is_retryable_db_error (lines 137-159)
_is_retryable_db_error(e) == e \in {"deadlock_detected", "operational_error"}

\* The rows a call wants to update, in the order it asks for their locks
Targets(op) ==
  CASE op = "update_quotes" -> <<"q1", "q2">>
    [] op = "update_episode_processing_flags" -> <<"e1">>
    [] OTHER -> <<"q1">>

\* The end of a transaction at the server, by commit or by rollback,
\* releases its transaction-scoped advisory locks
Released(t) == [r \in Rows |-> IF adv_lock[r] = t THEN "none" ELSE adv_lock[r]]

\* pg_try_advisory_xact_lock (lines 198-204): granted when no other
\* transaction holds the key
LockGranted(t, r) == adv_lock[r] \in {"none", t}

\* The exception handling of run_transaction_with_retry (lines 176-196) and
\* of get_db_connection (lines 80-85): the transaction is rolled back, then
\* the attempt is repeated or the exception is raised to the caller
Failed(t, e) ==
  /\ adv_lock' = Released(t)
  /\ row_version' = row_version
  /\ txn' = [txn EXCEPT ![t] =
       IF _is_retryable_db_error(e) /\ @.attempt < max_attempts - 1
       THEN [@ EXCEPT !.pending = {}, !.locked = {}, !.last_exc = e,
                      !.attempt = @ + 1, !.pc = "connect"]
       ELSE [@ EXCEPT !.pending = {}, !.locked = {}, !.last_exc = e,
                      !.pc = "raised", !.result = "raised"]]

DbRest == <<storeVars, queueVars, deployed, pollerVars, pipeVars, faults,
            critical_sessions, leaseVars, due, ecs_available, mgr,
            voluntary_shutdown_requested, lockVars, superVars,
            consecutive_failures, sideVars>>

\* get_db_connection and the call of transaction_fn (lines 167-174)
Connect(t) ==
  /\ txn[t].pc = "connect"
  /\ \/ /\ txn' = [txn EXCEPT ![t] =
              [@ EXCEPT !.pc = "lock", !.invoked = @ + 1,
                        !.todo = Targets(txn[t].op), !.locked = {},
                        !.missed = {}, !.tries = 0, !.fnres = "none"]]
        /\ UNCHANGED <<adv_lock, row_version>>
     \/ \E e \in ErrorKinds : Failed(t, e)     \* pool.getconn raises
  /\ UNCHANGED DbRest

\* The lock requests of the transaction functions: update_quote (236-238)
\* and update_episode_processing_flags (729-731) give up at the first
\* refusal, update_quotes (304-312) collects the rows it could lock,
\* update_quote_additional_data (376-383) sleeps and asks again.
TryLock(t) ==
  /\ txn[t].pc = "lock"
  /\ LET c == txn[t]
         r == Head(c.todo)
     IN IF LockGranted(t, r)
        THEN /\ adv_lock' = [adv_lock EXCEPT ![r] = t]
             /\ txn' = [txn EXCEPT ![t] =
                  [@ EXCEPT !.locked = @ \cup {r}, !.todo = Tail(@),
                            !.pc = IF Tail(c.todo) = << >> THEN "update"
                                   ELSE "lock"]]
        ELSE /\ adv_lock' = adv_lock
             /\ txn' = [txn EXCEPT ![t] =
                  CASE c.op = "update_quotes" ->
                         [@ EXCEPT !.missed = @ \cup {r}, !.todo = Tail(@),
                                   !.fnres = IF Tail(c.todo) = << >> /\ c.locked = {}
                                             THEN "true" ELSE @,
                                   !.pc = IF Tail(c.todo) # << >> THEN "lock"
                                          ELSE IF c.locked = {} THEN "commit"
                                          ELSE "update"]
                    [] c.op = "update_quote_additional_data"
                       /\ c.tries < max_lock_retries - 1 ->
                         [@ EXCEPT !.tries = @ + 1, !.slept = TRUE]
                    [] OTHER ->
                         [@ EXCEPT !.missed = @ \cup {r}, !.fnres = "false",
                                   !.pc = "commit"]]
  /\ UNCHANGED <<row_version, DbRest>>

\* The UPDATE statements of the transaction function on the rows it has
\* locked, and its return value True
Update(t) ==
  /\ txn[t].pc = "update"
  /\ \/ /\ txn' = [txn EXCEPT ![t] =
              [@ EXCEPT !.pending = txn[t].locked, !.fnres = "true",
                        !.pc = "commit"]]
        /\ UNCHANGED <<adv_lock, row_version>>
     \/ \E e \in ErrorKinds : Failed(t, e)
  /\ UNCHANGED DbRest

\* conn.commit() and the return of the result (lines 176-186).  A commit
\* that fails with a retryable error before the last attempt leaves the
\* with block by continue; the connection pool rolls the connection back
\* when it takes it back.  update_quotes ignores the result and returns
\* True (lines 346-348).
Commit(t) ==
  /\ txn[t].pc = "commit"
  /\ \/ /\ row_version' = [r \in Rows |->
              IF r \in txn[t].pending THEN row_version[r] + 1 ELSE row_version[r]]
        /\ adv_lock' = Released(t)
        /\ txn' = [txn EXCEPT ![t] =
              [@ EXCEPT !.wrote = @ \cup txn[t].pending, !.pending = {},
                        !.locked = {}, !.pc = "returned",
                        !.result = IF txn[t].op = "update_quotes" THEN "true"
                                   ELSE txn[t].fnres]]
     \/ \E e \in ErrorKinds : Failed(t, e)
  /\ UNCHANGED DbRest

\* Two callers, each making one call of the database layer, on one
\* database
InitDbCalls ==
  /\ InitCore({"w1"}, {OneMessage}, {AbsentEpisode}, {<< >>}, {<< >>})
  /\ InitMgr({TRUE}, {TRUE})
  /\ InitSuper({FALSE}, {FALSE})
  /\ InitDefaults(Ops)

NextDb ==
  \/ \E t \in Txns : Connect(t)
  \/ \E t \in Txns : TryLock(t)
  \/ \E t \in Txns : Update(t)
  \/ \E t \in Txns : Commit(t)

SpecDb == InitDbCalls /\ [][NextDb]_vars


\* ------------------------------------------------------------------------
\* The visibility heartbeat of the consumer (sqs_handler.py 343-358,
\* 494-521)
\* ------------------------------------------------------------------------
\* Everything but the manager, the variables of this part and the faults
coreRest == <<storeVars, queueVars, deployed, pollerVars, pipeVars, dbVars,
              consecutive_failures, superVars>>
mgrState == <<critical_sessions, leaseVars, due, ecs_available, mgr,
              voluntary_shutdown_requested, lockVars>>

\* The configured timeouts tried
Timeouts == (25 .. 65) \cup {90, 120, 180, 300, 900, 1200}

\* `timeout = max(30, int(...))` (line 497)
hb_timeout(cfg) == Max(30, cfg)

\* `interval = max(60, min(300, timeout // 3))` (line 498)
hb_interval(cfg) == Max(60, Min(300, hb_timeout(cfg) \div 3))

\* VisibilityTimeout of the final extension (line 518)
hb_final(cfg) == Max(60, Min(300, cfg))

\* The handler is running: the heartbeat task exists and is not cancelled
HandlerRunning == hb_pc \in {"extend", "sleep"}

\* receive_message with VisibilityTimeout of the configuration (line 175),
\* and the creation of the heartbeat task before the handler is awaited
\* (line 349)
HbReceive ==
  /\ hb_pc = "off"
  /\ visibility_left' = sqs_visibility_timeout_seconds
  /\ hb_pc' = "extend"
  /\ NoFault
  /\ UNCHANGED <<coreRest, mgrState, sqs_visibility_timeout_seconds,
                 statVars, sig_pc>>

\* change_message_visibility of the loop; a failure is logged (lines
\* 501-510)
HbExtend ==
  /\ hb_pc = "extend"
  /\ \/ /\ NoFault
        /\ visibility_left' = hb_timeout(sqs_visibility_timeout_seconds)
     \/ /\ Fault
        /\ UNCHANGED visibility_left
  /\ hb_pc' = "sleep"
  /\ UNCHANGED <<coreRest, mgrState, sqs_visibility_timeout_seconds,
                 statVars, sig_pc>>

\* `await asyncio.sleep(interval)` runs to its end (line 511)
HbSleep ==
  /\ hb_pc = "sleep"
  /\ visibility_left' =
       Max(0, visibility_left - hb_interval(sqs_visibility_timeout_seconds))
  /\ hb_pc' = "extend"
  /\ NoFault
  /\ UNCHANGED <<coreRest, mgrState, sqs_visibility_timeout_seconds,
                 statVars, sig_pc>>

\* The handler has finished: hb_task.cancel() and the final extension of
\* the except clause (lines 352-358, 512-521)
HbCancel ==
  /\ HandlerRunning
  /\ \/ /\ NoFault
        /\ visibility_left' = hb_final(sqs_visibility_timeout_seconds)
     \/ /\ Fault
        /\ UNCHANGED visibility_left
  /\ hb_pc' = "cancelled"
  /\ UNCHANGED <<coreRest, mgrState, sqs_visibility_timeout_seconds,
                 statVars, sig_pc>>

InitHeartbeat ==
  /\ InitCore({"w1"}, {OneMessage}, {AbsentEpisode}, {<< >>}, {<< >>})
  /\ InitMgr({TRUE}, {TRUE})
  /\ InitSuper({FALSE}, {FALSE})
  /\ InitDb({"none"})
  /\ InitSide(Timeouts, {DefaultSettings})

NextHeartbeat ==
  \/ HbReceive
  \/ HbExtend
  \/ HbSleep
  \/ HbCancel

SpecHeartbeat == InitHeartbeat /\ [][NextHeartbeat]_vars

\* ------------------------------------------------------------------------
\* The timing of the protection requests and of the status report
\* (ecs_task_protection.py 257-368, 420-456)
\* ------------------------------------------------------------------------
\* The settings tried: the defaults, those of test_task_protection_timing.py
\* and values between
SettingsTried ==
  { [E |-> e, B |-> b, C |-> c] :
      e \in {10, 60, 90, 900}, b \in {8, 30, 300}, c \in {5, 30, 60, 400} }

\* The request of _enable_task_protection and _extend_task_protection
\* (lines 265-283, 336-347) when the environment grants it
update_task_protection(w) ==
  /\ w \in deployed
  /\ ecs_available[w]
  /\ requested_minutes' = expiration_minutes_for(settings.E, settings.B)
  /\ lease_remaining' = [lease_remaining EXCEPT ![w] = requested_minutes' * 60]
  /\ protection_enabled' = [protection_enabled EXCEPT ![w] = TRUE]
  /\ protection_duration' =
       [protection_duration EXCEPT ![w] = IF protection_enabled[w] THEN @ ELSE 0]
  /\ NoFault
  /\ UNCHANGED <<coreRest, critical_sessions, due, ecs_available, mgr,
                 voluntary_shutdown_requested, lockVars, hbVars, settings,
                 status, sig_pc>>

\* The timing part of the dict of get_protection_status (lines 438-454):
\* the keys are present when protection_start_time is set
get_protection_status(w) ==
  LET m == expiration_minutes_for(settings.E, settings.B)
      gap_safety_margin == (m * 60) - settings.C
  IN IF protection_duration[w] >= 0
     THEN [started |-> TRUE, minutes_until_expiry |-> m,
           gap_safety_margin_seconds |-> gap_safety_margin,
           gap_protection_safe |-> gap_safety_margin > 0]
     ELSE NoStatus

\* A caller asks for the status
GetStatus(w) ==
  /\ w \in deployed
  /\ status' = get_protection_status(w)
  /\ NoFault
  /\ UNCHANGED <<coreRest, mgrState, hbVars, settings, requested_minutes,
                 sig_pc>>

InitTiming ==
  /\ InitCore({"w1"}, {OneMessage}, {AbsentEpisode}, {<< >>}, {<< >>})
  /\ InitMgr({TRUE}, {TRUE})
  /\ InitSuper({FALSE}, {FALSE})
  /\ InitDb({"none"})
  /\ InitSide(DefaultVisibility, SettingsTried)

NextTiming ==
  \/ \E w \in Workers : update_task_protection(w)
  \/ \E w \in Workers : GetStatus(w)

SpecTiming == InitTiming /\ [][NextTiming]_vars


\* ------------------------------------------------------------------------
\* Signal handlers and the protection lock (main.py 275-340, 365-371;
\* ecs_task_protection.py 29, 406-474).  signal.signal installs the
\* handlers, so a handler runs on the main thread, on top of whatever the
\* main thread was doing; protection_lock is a threading.Lock.
\* ------------------------------------------------------------------------
\* What the main thread does under the lock for a processing session
\* (main.py 210, 227, 241)
MainOps == {"session_add", "session_remove"}

\* The main thread is not inside a signal handler
MainRuns(w) == sig_pc[w] \in {"none", "returned"}

\* `with self.protection_lock` of add_critical_session and
\* remove_critical_session, entered by the main thread (lines 408, 415)
MainAcquire(w, op) ==
  /\ w \in deployed
  /\ mgr[w] = "running"
  /\ MainRuns(w)
  /\ protection_lock[w] = "free"
  /\ protection_lock' = [protection_lock EXCEPT ![w] = op]
  /\ NoFault
  /\ UNCHANGED <<coreRest, critical_sessions, leaseVars, due, ecs_available,
                 mgr, voluntary_shutdown_requested, shutdown_pc, sideVars>>

\* The body of the with statement and the release of the lock (lines
\* 409-411, 416-418)
MainRelease(w) ==
  /\ protection_lock[w] \in MainOps
  /\ MainRuns(w)
  /\ critical_sessions' = [critical_sessions EXCEPT ![w] =
       IF protection_lock[w] = "session_add"
       THEN add_critical_session(@, SessionToken)
       ELSE remove_critical_session(@, SessionToken)]
  /\ protection_lock' = [protection_lock EXCEPT ![w] = "free"]
  /\ NoFault
  /\ UNCHANGED <<coreRest, leaseVars, due, ecs_available, mgr,
                 voluntary_shutdown_requested, shutdown_pc, sideVars>>

\* A signal arrives and signal_handler runs up to its call of
\* get_protection_status (main.py 275-299, 313-315)
SignalDelivered(w) ==
  /\ w \in deployed
  /\ mgr[w] = "running"
  /\ sig_pc[w] = "none"
  /\ sig_pc' = [sig_pc EXCEPT ![w] = "status"]
  /\ IF DrainsOnSigterm(w)
     THEN /\ spot_termination_imminent' =
               [spot_termination_imminent EXCEPT ![w] = TRUE]
          /\ IF mainpc[w] = "polling"
             THEN /\ draining' = [draining EXCEPT ![w] = TRUE]
                  /\ is_running' = [is_running EXCEPT ![w] = TRUE]
             ELSE UNCHANGED <<draining, is_running>>
     ELSE UNCHANGED <<spot_termination_imminent, draining, is_running>>
  /\ NoFault
  /\ UNCHANGED <<storeVars, queueVars, deployed, cpc, not_ready_counts, batch,
                 cur, route, ens, pipeVars, dbVars, consecutive_failures,
                 spot_mode, strict_block, mainpc, max_wait_time, waited_time,
                 watchdog_result, sigterm_pos, mgrState, hbVars, statVars>>

\* get_protection_status inside the handler: the lock is taken, the status
\* read and the lock released (main.py 300-301, 316-317)
HandlerStatus(w) ==
  /\ sig_pc[w] = "status"
  /\ protection_lock[w] = "free"
  /\ sig_pc' = [sig_pc EXCEPT ![w] =
       IF DrainsOnSigterm(w)
       THEN IF critical_sessions_count(w) > 0 THEN "add" ELSE "returned"
       ELSE IF ecs_available[w] /\ ~protection_enabled[w]
            THEN "add" ELSE "returned"]
  /\ NoFault
  /\ UNCHANGED <<coreRest, mgrState, hbVars, statVars>>

\* add_critical_session inside the handler (main.py 304, 318)
HandlerAdd(w) ==
  /\ sig_pc[w] = "add"
  /\ protection_lock[w] = "free"
  /\ critical_sessions' = [critical_sessions EXCEPT ![w] =
       add_critical_session(@, IF DrainsOnSigterm(w) THEN GuardToken
                               ELSE EmergencyToken)]
  /\ sig_pc' = [sig_pc EXCEPT ![w] = "returned"]
  /\ NoFault
  /\ UNCHANGED <<coreRest, leaseVars, due, ecs_available, mgr,
                 voluntary_shutdown_requested, lockVars, hbVars, statVars>>

InitSignal ==
  /\ InitCore({"w1"}, {OneMessage}, {AbsentEpisode}, {<< >>}, {<< >>})
  /\ InitMgr({TRUE}, {TRUE})
  /\ InitSuper(BOOLEAN, BOOLEAN)
  /\ InitDefaults({"none"})

NextSignal ==
  \/ \E w \in Workers, op \in MainOps : MainAcquire(w, op)
  \/ \E w \in Workers : MainRelease(w)
  \/ \E w \in Workers : SignalDelivered(w)
  \/ \E w \in Workers : HandlerStatus(w)
  \/ \E w \in Workers : HandlerAdd(w)
  \/ \E w \in Workers : LoopLock(w)
  \/ \E w \in Workers : LoopCall(w)
  \/ TickUnlocked

\* Every thread that can run does run, and a thread that waits for the
\* lock gets it when it is free again and again
SpecSignal ==
  /\ InitSignal
  /\ [][NextSignal]_vars
  /\ \A w \in Workers :
       /\ SF_vars(HandlerStatus(w))
       /\ SF_vars(HandlerAdd(w))
       /\ WF_vars(MainRelease(w))
       /\ WF_vars(LoopCall(w))


\* cleanup_on_exit, registered with atexit (main.py 342-362, 387): the
\* forced disable when tokens are left, then the shutdown of the manager
CleanupOnExit(w) ==
  /\ mainpc[w] = "exited"
  /\ ForceDisable(w) \/ Shutdown(w)

NextSuperExit ==
  \/ NextSuper
  \/ \E w \in Workers : CleanupOnExit(w)

\* The supervisor with its scheduling: the event loop runs the poller, the
\* handler and the supervisor's own steps, the background thread runs its
\* check, the exit hook runs at exit; signals come as the environment
\* sends them
SpecSuperFair ==
  /\ InitSuperv
  /\ [][NextSuperExit]_vars
  /\ \A w \in Workers :
       /\ WF_vars(PollingStep(w))
       /\ WF_vars(BackgroundCheck(w))
       /\ WF_vars(CreatePoller(w) \/ PollingReturns(w) \/ Watchdog(w) \/ Exit(w))
       /\ WF_vars(CleanupOnExit(w))


\* ------------------------------------------------------------------------
\* Properties
\* ------------------------------------------------------------------------
VideoQuotingSet == ~episode.pi.videoQuotingDone /\ episode'.pi.videoQuotingDone
VideoChunkingSet == ~episode.pi.videoChunkingDone /\ episode'.pi.videoChunkingDone

\* C1: once videoQuotingDone or videoChunkingDone is true in the store, no
\* step of any worker writes it back to false or removes it.
C1_FlagsMonotone ==
  [][ /\ episode.pi.videoQuotingDone => episode'.pi.videoQuotingDone
      /\ episode.pi.videoChunkingDone => episode'.pi.videoChunkingDone ]_vars

\* C2: for an episode with zero quote rows, no step sets videoQuotingDone.
C2_ZeroQuotesNeverDone ==
  [][ Len(quotes) = 0 => ~VideoQuotingSet ]_vars

\* C3: a step that sets videoQuotingDone finds quotingDone true in the
\* store, and a step that sets videoChunkingDone finds chunkingDone true.
C3_FlagNeedsUpstream ==
  [][ /\ VideoQuotingSet => episode.pi.quotingDone
      /\ VideoChunkingSet => episode.pi.chunkingDone ]_vars

\* C4: when a step sets a category flag, the store at that moment shows no
\* pending item of the category: every quote, respectively every valid
\* short, has contentType video and a non-empty videoMasterPlaylistPath.
C4_NoPendingWhenSet ==
  [][ /\ VideoQuotingSet => \A i \in DOMAIN quotes : _is_quote_processed(quotes[i])
      /\ VideoChunkingSet => \A i \in DOMAIN shorts :
                               _is_valid_chunk(shorts[i]) => _is_chunk_processed(shorts[i]) ]_vars

Routed(w, outs) == cpc[w] = "routed" /\ route[w].outcome \in outs

\* C5: when the routing of a Success is complete, the message has been
\* deleted; it has not been sent back when the flags were ensured and both
\* are true, and otherwise exactly one copy with the same body was sent.
C5_SuccessRouting ==
  \A w \in Workers : Routed(w, {"Success"}) =>
    /\ route[w].deleted
    /\ IF route[w].final
       THEN route[w].sent = 0
       ELSE route[w].sent = 1 /\ route[w].sentBody = cur[w].body


\* C6: when the routing of a NotReady is complete: below the limit the
\* counter holds the new count, no metric was emitted, one delete call and
\* one send call with the same body and the fixed delay were made; at the
\* limit one NotReadyCountExceeded metric and one delete call were made,
\* nothing was sent and the counter is reset.  The count never passes the
\* limit.
C6_NotReadyRouting ==
  \A w \in Workers : Routed(w, {"NotReady"}) =>
    /\ route[w].deleteCalls = 1
    /\ route[w].count \in 1..NotReadyLimit
    /\ IF route[w].count < NotReadyLimit
       THEN /\ route[w].metrics = 0
            /\ route[w].sendCalls = 1
            /\ route[w].sentBody = cur[w].body
            /\ route[w].delay = RequeueDelay
            /\ not_ready_counts[w] = route[w].count
       ELSE /\ route[w].metrics = 1
            /\ route[w].sendCalls = 0
            /\ route[w].sent = 0
            /\ not_ready_counts[w] = 0

C6_Witness ==
  \E w \in Workers : /\ Routed(w, {"NotReady"})
                     /\ route[w].count = NotReadyLimit
                     /\ route[w].metrics = 1
                     /\ route[w].deleted

\* C7: a handler that returns Failed or raises leads to no delete call and
\* no send call: the routing step leaves the queue as it was, and the
\* message then waits in flight for its visibility timeout.
C7_FailedLeavesMessage ==
  [][ \A w \in Workers :
        /\ (cpc[w] = "handler" /\ cpc'[w] = "routed"
              /\ route'[w].outcome \in {"Failed", "Raised"})
           => /\ UNCHANGED queueVars
              /\ route'[w].deleteCalls = 0 /\ route'[w].sendCalls = 0
        /\ (Routed(w, {"Failed", "Raised"}) /\ cpc'[w] # "routed")
           => /\ hidden' = QAdd(hidden, cur[w])
              /\ UNCHANGED <<visible, delayed, dlq>> ]_vars

\* The message of a failed run is delivered again, and fails again
C7_Witness ==
  \E w \in Workers : /\ Routed(w, {"Failed", "Raised"})
                     /\ cur[w].rc = 2
                     /\ QSize(visible) + QSize(delayed) + QSize(hidden) = 0

\* C8: every message eventually leaves circulation: no message is visible,
\* delayed, in flight or held by a consumer any more.
InCirculation ==
  \/ QSize(visible) + QSize(delayed) + QSize(hidden) > 0
  \/ \E w \in Workers : cur[w] # NoMsg \/ batch[w] # << >>

C8_LeavesCirculation == <>[](~InCirculation)

\* C9: once draining is set the consumer makes no receive call and starts
\* no handler, a handler in progress is not abandoned, and the consumer
\* moves from the loop head or from the batch loop only to the end of
\* start_polling, where it stays.
C9_Drain ==
  [][ \A w \in Workers :
        /\ draining[w] /\ ppc[w] = "idle" => ppc'[w] = "idle"
        /\ draining[w] /\ ppc[w] \notin {"idle", "done"} => ppc'[w] # "idle"
        /\ draining[w] /\ cpc[w] \in {"loop", "next"} => cpc'[w] \in {cpc[w], "exited"}
        /\ draining[w] => Len(batch'[w]) <= Len(batch[w])
        /\ cpc[w] = "exited" => cpc'[w] = "exited" ]_vars

\* Under drain a handler has run to completion and its outcome is routed
\* while a message of the batch is still waiting
C9_Witness ==
  \E w \in Workers : /\ draining[w]
                     /\ Routed(w, {"Success", "NotReady", "Failed", "Raised"})
                     /\ batch[w] # << >>

\* C10: a handler runs only at the handler position of the batch loop, and
\* it is started only when the consumer holds no message: the previous
\* message of the batch was handled and routed.
C10_Sequential ==
  [][ \A w \in Workers :
        /\ ppc[w] # "idle" => cpc[w] = "handler"
        /\ cpc[w] \in {"ensure_flags", "route_success", "routed"} => cur[w] # NoMsg
        /\ (ppc[w] = "idle" /\ ppc'[w] # "idle")
           => /\ cur[w] = NoMsg
              /\ cpc[w] = "next"
              /\ batch[w] # << >>
              /\ cur'[w] = Head(batch[w])
              /\ batch'[w] = Tail(batch[w]) ]_vars

\* A handler is in progress while a later message of the batch waits
C10_Witness ==
  \E w \in Workers : /\ cpc[w] = "handler"
                     /\ ppc[w] = "produce"
                     /\ batch[w] # << >>

BothFlagsInStore == episode.pi.videoChunkingDone /\ episode.pi.videoQuotingDone

PendingQuotesInStore(pi) ==
  IF ReadsQuotes(pi) THEN { i \in DOMAIN quotes : ~_is_quote_processed(quotes[i]) } ELSE {}

PendingShortsInStore(pi) ==
  IF ReadsChunks(pi)
  THEN { i \in DOMAIN shorts : _is_valid_chunk(shorts[i]) /\ ~_is_chunk_processed(shorts[i]) }
  ELSE {}

\* C12: the items a run hands to the transcoder are exactly the pending
\* items of the categories it processes (every unprocessed quote, every
\* valid unprocessed short), and no step rewrites the outputs of an item
\* that is already processed in the store.
C12_HandsExactlyPending ==
  [][ \A w \in Workers :
        /\ (ppc[w] = "inventory" /\ ppc'[w] # "inventory")
           => /\ loc'[w].qpend = PendingQuotesInStore(loc[w].pi)
              /\ loc'[w].cpend = PendingShortsInStore(loc[w].pi)
        /\ \A i \in DOMAIN quotes :
             _is_quote_processed(quotes[i])
               => quotes'[i].ct = quotes[i].ct /\ quotes'[i].master = quotes[i].master
        /\ \A i \in DOMAIN shorts :
             _is_chunk_processed(shorts[i])
               => shorts'[i].ct = shorts[i].ct /\ shorts'[i].master = shorts[i].master ]_vars

\* The positions of a run after the transcoder was invoked and before the
\* flag-advancement step
Validating == {"validate1", "validate2"}

\* C13: in a run that produces artifacts the flag-advancement step is
\* entered only from a validation read that finds every expected item
\* valid in the store; the retry read happens only after a failed first
\* read; no step of the run before the advancement writes the Episodes
\* row; and NotReady is returned only by a failed retry read, without any
\* write.
C13_FlagsAfterValidation ==
  [][ \A w \in Workers :
        /\ (ppc'[w] = "advance" /\ ppc[w] # "advance")
           => /\ ppc[w] \in Validating
              /\ validate_category(w, quotes, loc[w].qpend, loc[w].rq)
              /\ validate_category(w, shorts, loc[w].cpend, loc[w].rcs)
        /\ (ppc'[w] \in {"adv_episode", "adv_flags"} /\ ppc[w] \notin {"adv_episode", "adv_flags"})
           => ppc[w] = "advance"
        /\ (ppc'[w] = "validate1" /\ ppc[w] # "validate1") => ppc[w] = "produce"
        /\ (ppc'[w] = "validate2" /\ ppc[w] # "validate2") => ppc[w] = "validate1"
        /\ ppc[w] \in {"mark", "produce", "advance"} \cup Validating
           => episode' = episode
        /\ (ppc'[w] = "done" /\ ppc[w] # "done" /\ loc'[w].outcome = "NotReady")
           => ppc[w] = "validate2" /\ UNCHANGED storeVars ]_vars

\* The first validation read failed, the retry read succeeded, and the run
\* has set a flag
C13_Witness ==
  \E w \in Workers : /\ ppc[w] = "done"
                     /\ loc[w].outcome = "Success"
                     /\ faults = 1
                     /\ episode.pi.videoQuotingDone
                     /\ \E i \in DOMAIN quotes : w \in quotes[i].fresh

\* C14: a run in which the download of the source video failed, or in
\* which the transcode and upload work of a category raised, returns
\* Failed.
C14_TranscodeFailureIsFailed ==
  [][ \A w \in Workers :
        (ppc[w] # "done" /\ ppc'[w] = "done" /\ loc[w].failure # "none")
          => loc'[w].outcome = "Failed" ]_vars

\* C15: while the episode of the message is absent, or its contentType is
\* not video, no step of the handling writes the store: the Episodes row
\* (flags, contentType) and the Quotes and Shorts rows stay as they are.
C15_NonVideoNoWrite ==
  [][ (~episode.exists \/ Lower(episode.contentType) # "video")
        => UNCHANGED storeVars ]_vars

\* The positions of process_video_message between session.set_critical(True)
\* and the return of the function
CriticalSection ==
  {"produce", "validate1", "validate2", "advance", "adv_episode", "adv_flags"}

\* C16: the token of the processing session is in critical_sessions only
\* while the run is between the mark-critical step and its return; once
\* the pipeline has returned (with any outcome, or through an exception)
\* the token is not in the set.
C16_TokenOnlyWhileCritical ==
  \A w \in Workers :
    SessionToken \in critical_sessions[w] => ppc[w] \in CriticalSection

\* A run that was critical has returned NotReady and its token is gone
C16_Witness ==
  \E w \in Workers : /\ ppc[w] = "done"
                     /\ loc[w].outcome = "NotReady"
                     /\ SessionToken \notin critical_sessions[w]
                     /\ BaselineToken \in critical_sessions[w]

\* A step of the background loop of worker w
IsBackgroundCheck(w) == due[w] /\ ~due'[w]

\* C17: with the environment available and its calls succeeding, a
\* background check that finds a token and no exceeded safety cap leaves
\* protection enabled, so a token added to an empty set has protection
\* enabled at the latest at the next check; and while the manager runs,
\* protection that is enabled stays enabled for as long as the token set is
\* non-empty and the safety cap has not been exceeded.
C17_EnabledWhileTokens ==
  [][\A w \in deployed :
       /\ ( /\ IsBackgroundCheck(w)
            /\ ecs_available[w]
            /\ critical_sessions[w] # {}
            /\ protection_duration[w] <= max_protection_duration
            /\ faults' = faults )
          => protection_enabled'[w]
       /\ ( /\ protection_enabled[w]
            /\ mgr'[w] = "running"
            /\ critical_sessions'[w] # {}
            /\ protection_duration[w] <= max_protection_duration )
          => protection_enabled'[w]
    ]_vars

\* A token was added to an empty set and protection has been enabled, and
\* kept enabled over a later check, without the baseline token
C17_Witness ==
  /\ critical_sessions["w1"] = {SessionToken}
  /\ protection_enabled["w1"]
  /\ protection_duration["w1"] > min_protection_time
  /\ faults = 0

\* A step over which worker w keeps a token, every call to the environment
\* succeeds and the manager keeps running
TokensHeld(w) ==
  /\ critical_sessions[w] # {}
  /\ critical_sessions'[w] # {}
  /\ faults' = faults
  /\ mgr'[w] = "running"

\* C18 as stated: while the token set is non-empty and environment calls
\* succeed, a lease held at the environment never expires.
C18_LeaseNeverExpires ==
  [][\A w \in deployed :
       (lease_remaining[w] > 0 /\ TokensHeld(w)) => lease_remaining'[w] > 0
    ]_vars

\* C18 amended: while the token set is non-empty, environment calls succeed
\* and the safety cap has not been exceeded, a lease held at the environment
\* never expires: every background check re-issues it before it runs out.
C18_LeaseHeldBelowCap ==
  [][\A w \in deployed :
       ( /\ lease_remaining[w] > 0
         /\ TokensHeld(w)
         /\ protection_duration[w] <= max_protection_duration )
       => lease_remaining'[w] > 0
    ]_vars

\* Protection has lasted longer than one lease and a full lease is held
C18_Witness ==
  /\ critical_sessions["w1"] # {}
  /\ protection_enabled["w1"]
  /\ protection_duration["w1"] > LeaseSeconds
  /\ lease_remaining["w1"] = LeaseSeconds

\* C19: after force_disable_protection has returned, the token set is empty
\* and protection is disabled, whatever the state it was called in.
C19_ForceDisableClears ==
  \A w \in deployed :
    mgr[w] = "forced" => (critical_sessions[w] = {} /\ ~protection_enabled[w])

\* C20: request_voluntary_shutdown removes only the baseline_protection
\* token: every other token, the enabled state and the lease are left as
\* they were, and the token set is unchanged when it holds no baseline token.
C20_RemovesOnlyBaseline ==
  [][\A w \in deployed :
       (~voluntary_shutdown_requested[w] /\ voluntary_shutdown_requested'[w])
       => /\ critical_sessions'[w] = critical_sessions[w] \ {BaselineToken}
          /\ BaselineToken \notin critical_sessions[w]
               => critical_sessions'[w] = critical_sessions[w]
          /\ protection_enabled'[w] = protection_enabled[w]
          /\ protection_duration'[w] = protection_duration[w]
          /\ lease_remaining'[w] = lease_remaining[w]
    ]_vars

\* A voluntary shutdown was requested while a session held its token and
\* protection was enabled: the session token and protection are still there
C20_Witness ==
  /\ voluntary_shutdown_requested["w1"]
  /\ critical_sessions["w1"] = {SessionToken}
  /\ protection_enabled["w1"]
  /\ mgr["w1"] = "running"

\* C21 as stated: protection that has been enabled is not disabled earlier
\* than min_protection_time seconds after it was enabled.
C21_MinHold ==
  [][\A w \in deployed :
       (protection_enabled[w] /\ ~protection_enabled'[w])
       => protection_duration[w] >= min_protection_time
    ]_vars

\* C21 amended: the background loop does not disable protection earlier
\* than min_protection_time seconds after it was enabled, even if the token
\* set has become empty; force_disable_protection and shutdown disable it
\* at once.
C21_MinHoldByLoop ==
  [][\A w \in deployed :
       (protection_enabled[w] /\ ~protection_enabled'[w] /\ mgr'[w] = mgr[w])
       => protection_duration[w] >= min_protection_time
    ]_vars

\* Protection is held over an empty token set during the minimum time
C21_Witness ==
  /\ protection_enabled["w1"]
  /\ critical_sessions["w1"] = {}
  /\ protection_duration["w1"] >= check_interval
  /\ protection_duration["w1"] < min_protection_time
  /\ ~due["w1"]

\* C22: while the calls to the environment succeed, protection is never
\* continuously enabled for longer than max_protection_duration plus one
\* check interval: the background check that finds the ceiling exceeded
\* disables protection, however many tokens are present.
C22_Ceiling ==
  [][\A w \in deployed :
       /\ ( /\ IsBackgroundCheck(w)
            /\ protection_enabled[w]
            /\ protection_duration[w] > max_protection_duration
            /\ faults' = faults )
          => ~protection_enabled'[w]
       /\ (faults = 0 /\ mgr[w] # "stopped")
          => protection_duration[w] <= max_protection_duration + check_interval
    ]_vars

\* The ceiling was exceeded with the baseline token present: the check has
\* run and protection is off although the token is still in the set
C22_Witness ==
  /\ BaselineToken \in critical_sessions["w1"]
  /\ ~protection_enabled["w1"]
  /\ ~due["w1"]
  /\ mgr["w1"] = "running"
  /\ faults = 0

\* C23: the mutations of the token set and of the enabled state never
\* interleave: while the background loop holds the protection lock for the
\* branch it has decided on, shutdown is not inside its own disabling of
\* protection.
C23_MutualExclusion ==
  \A w \in deployed :
    ~(protection_lock[w] \in Decisions \ {"hold"} /\ shutdown_pc[w] = "disabling")

\* The tokens that only the SIGTERM handler adds
SignalTokens == {GuardToken, EmergencyToken}

\* C24: the first SIGTERM that arrives in spot mode, or outside spot mode
\* without the strict-block flag, while the consumer is being started or is
\* polling, puts the consumer into draining; with the strict-block flag set
\* outside spot mode no step (SIGTERM is the only candidate) changes the
\* consumer's draining state or adds a token of the signal handler to the
\* token set.
C24_SigtermPolicy ==
  [][\A w \in deployed :
       /\ ( /\ spot_mode[w] \/ ~strict_block[w]
            /\ ~spot_termination_imminent[w]
            /\ spot_termination_imminent'[w]
            /\ mainpc[w] \in {"starting", "polling"} )
          => draining'[w]
       /\ (strict_block[w] /\ ~spot_mode[w])
          => /\ draining'[w] = draining[w]
             /\ (critical_sessions'[w] \ critical_sessions[w]) \cap SignalTokens = {}
    ]_vars

\* C25: the step that records a voluntary shutdown request leaves the
\* baseline token out of the token set, and once the request is recorded
\* the consumer makes no further receive call.
C25_VoluntaryStopsFetching ==
  [][\A w \in deployed :
       /\ (~voluntary_shutdown_requested[w] /\ voluntary_shutdown_requested'[w])
          => BaselineToken \notin critical_sessions'[w]
       /\ voluntary_shutdown_requested[w]
          => ~(cpc[w] = "loop" /\ cpc'[w] = "validate")
    ]_vars

\* C26: a process whose polling loop ended because of a drain has exited
\* only if a voluntary shutdown was requested.
C26_NoExitBeforeVoluntary ==
  \A w \in deployed :
    (draining[w] /\ mainpc[w] = "exited") => voluntary_shutdown_requested[w]

\* The polling loop ended because of a drain, the watchdog is over and
\* the process has exited after a voluntary shutdown request.
C26_Witness ==
  \E w \in deployed :
    /\ draining[w]
    /\ cpc[w] = "exited"
    /\ watchdog_result[w] # "none"
    /\ mainpc[w] = "exited"

\* C27: when the first draining SIGTERM arrived while the handler was
\* producing clips, the drain watchdog ends because it has seen a count of
\* zero critical sessions, not because its deadline expired.
C27_WatchdogSeesZero ==
  \A w \in deployed :
    (sigterm_pos[w] = "produce" /\ watchdog_result[w] # "none")
      => watchdog_result[w] = "zero"

\* C28: no call of the database layer sleeps while it waits for a lock, and
\* a call that returns after it was refused the lock of a row reports False
\* and has not updated that row.
C28_SkippedWhenLocked ==
  \A t \in Txns :
    /\ ~txn[t].slept
    /\ (txn[t].pc = "returned" /\ txn[t].missed # {})
       => /\ txn[t].result = "false"
          /\ txn[t].missed \cap txn[t].wrote = {}

\* C29: a row has uncommitted updates of at most one transaction, which
\* holds the row's advisory lock; a call whose transaction was refused the
\* lock of a row because another transaction held it returns False and has
\* not updated the row.
C29_OneWriterPerRow ==
  \A r \in Rows : \A t \in Txns :
    /\ r \in txn[t].pending => adv_lock[r] = t
    /\ \A u \in Txns \ {t} : ~(r \in txn[t].pending /\ r \in txn[u].pending)
    /\ (r \in txn[t].missed /\ txn[t].pc = "returned")
       => (txn[t].result = "false" /\ r \notin txn[t].wrote)

\* C30: run_transaction_with_retry invokes the transaction function at most
\* max_attempts times; an attempt starts with no lock held and no update
\* pending from the attempt before; a further attempt is made only after a
\* retryable error; the call returns the result of the attempt that
\* committed; it raises when the error is not retryable, at once, or when
\* the last attempt has failed.
C30_RetryPolicy ==
  \A t \in Txns :
    LET c == txn[t]
        retryable == c.last_exc \in {"deadlock_detected", "operational_error"}
    IN /\ c.invoked <= max_attempts
       /\ c.invoked <= c.attempt + 1
       /\ c.pc = "connect"
          => (c.pending = {} /\ \A r \in Rows : adv_lock[r] # t)
       /\ (c.attempt > 0 /\ c.pc # "raised") => retryable
       /\ (c.last_exc # "none" /\ ~retryable) => c.pc = "raised"
       /\ c.pc = "raised"
          => (c.result = "raised"
              /\ (~retryable \/ c.attempt = max_attempts - 1))
       /\ c.pc = "returned"
          => (c.result \in {"true", "false"}
              /\ (c.op # "update_quotes" => c.result = c.fnres))

\* A call returned the result of an attempt that committed an update after
\* an earlier attempt had failed with a retryable error, and another call
\* raised after its fifth attempt.
C30_Witness ==
  \E t \in Txns : \E u \in Txns :
    /\ txn[t].pc = "returned"
    /\ txn[t].attempt > 0
    /\ txn[t].wrote # {}
    /\ txn[u].pc = "raised"
    /\ txn[u].invoked = max_attempts

\* C31: when the handler loads a video episode with processing status whose
\* additionalData.videoLocation is absent or cannot be parsed, it returns
\* Failed, and that step writes nothing to the store.
C31_BadLocationFails ==
  [][\A w \in deployed :
       ( /\ ppc[w] = "load" /\ ppc'[w] = "done"
         /\ loc'[w].outcome # "Raised"
         /\ ~voluntary_shutdown_requested[w]
         /\ faults' = faults
         /\ episode.exists /\ Lower(episode.contentType) = "video"
         /\ episode.pi.present
         /\ episode.videoLocation \in {"missing", "unparseable"} )
       => (loc'[w].outcome = "Failed" /\ UNCHANGED storeVars)
    ]_vars

\* C32: a background check whose call to the environment failed counts the
\* failure, so that the sleep before the next check is the backoff delay of
\* one more consecutive failure, and it leaves the manager running.
C32_FailureBacksOff ==
  [][\A w \in deployed :
       (due[w] /\ ~due'[w] /\ faults' = faults + 1)
       => /\ consecutive_failures'[w] = consecutive_failures[w] + 1
          /\ LoopSleep(w)' = Backoff(consecutive_failures[w] + 1)
          /\ mgr'[w] = mgr[w]
    ]_vars


\* C33: for every configured visibility timeout the heartbeat interval is
\* shorter than the timeout each heartbeat sets, and while the handler
\* runs and every extension succeeds the message stays invisible.
C33_HeartbeatKeepsInvisible ==
  /\ hb_interval(sqs_visibility_timeout_seconds)
       < hb_timeout(sqs_visibility_timeout_seconds)
  /\ (HandlerRunning /\ faults = 0) => visibility_left > 0

\* C34: the lease requested is E + B seconds rounded up to whole minutes,
\* hence never shorter than E + B seconds.
C34_LeaseRoundedUp ==
  requested_minutes > 0 =>
    /\ requested_minutes = (settings.E + settings.B + 59) \div 60
    /\ requested_minutes * 60 >= settings.E + settings.B

\* C35: the status reports gap_protection_safe exactly when B > C, and
\* gap_safety_margin_seconds equal to B - C.
C35_GapMarginIsBufferMinusCheck ==
  status.started =>
    /\ status.gap_protection_safe = (settings.B > settings.C)
    /\ status.gap_safety_margin_seconds = settings.B - settings.C

\* C36: handling a signal always completes: a handler that has reached its
\* calls into the protection manager returns, whatever the main thread was
\* doing when the signal arrived.
C36_SignalHandlingCompletes ==
  \A w \in Workers : (sig_pc[w] = "status") ~> (sig_pc[w] = "returned")

\* C37: once voluntary shutdown has been requested and no processing
\* session is open, the token set becomes empty while the process is still
\* running: the tokens the supervisor added in reaction to signals are
\* removed.
C37_SignalTokensRemoved ==
  \A w \in Workers :
    (voluntary_shutdown_requested[w] /\ SessionToken \notin critical_sessions[w])
      ~> (critical_sessions[w] = {} \/ mainpc[w] = "exited")

\* C38: a background check that finds the safety cap exceeded leaves the
\* token set as it was; and a check that finds tokens present with
\* protection off, as it is after such a disable, enables protection with a
\* fresh start time when the call to the environment succeeds.
C38_CapDisableKeepsTokens ==
  [][\A w \in deployed :
       /\ ( /\ due[w] /\ ~due'[w]
            /\ protection_enabled[w]
            /\ protection_duration[w] > max_protection_duration )
          => critical_sessions'[w] = critical_sessions[w]
       /\ ( /\ due[w] /\ ~due'[w]
            /\ ~protection_enabled[w]
            /\ critical_sessions[w] # {}
            /\ faults' = faults )
          => (protection_enabled'[w] /\ protection_duration'[w] = 0)
    ]_vars

\* The cap was exceeded with the baseline and a session token present: the
\* check has disabled protection, reset the start time and left both tokens
C38_Witness ==
  /\ {BaselineToken, SessionToken} \subseteq critical_sessions["w1"]
  /\ ~protection_enabled["w1"]
  /\ protection_duration["w1"] = -1
  /\ ~due["w1"]
  /\ mgr["w1"] = "running"
  /\ faults = 0

\* C39: when the deletion succeeds, the validation of a received batch
\* drops every message whose body is not valid from the hands of the
\* consumer without putting it back on any queue and without starting the
\* handler, also when drain is in progress; and the handler is never given
\* such a message.
C39_InvalidDeleted ==
  [][\A w \in deployed :
       /\ (cpc[w] = "validate" /\ cpc'[w] = "next" /\ faults' = faults)
          => /\ batch'[w] = SelectSeq(batch[w], LAMBDA m : m.body # BadBody)
             /\ UNCHANGED queueVars
             /\ ppc'[w] = ppc[w]
             /\ cur'[w] = cur[w]
       /\ cur'[w] # NoMsg => cur'[w].body # BadBody
    ]_vars

\* Drain began after the receive call: the consumer holds a received
\* message that is not valid, which its next step validates and deletes
C39_Witness ==
  /\ draining["w1"]
  /\ cpc["w1"] = "validate"
  /\ \E i \in DOMAIN batch["w1"] : batch["w1"][i].body = BadBody
  /\ QSize(hidden) = 0
  /\ faults = 0

\* C40: the NotReady counter changes only when an outcome is routed: a
\* NotReady adds one, or resets the counter when the limit is reached; a
\* Success resets it when the message is deleted for good and leaves it
\* when the message is requeued; a Failed outcome and a handler exception
\* leave it.
C40_CounterChanges ==
  [][\A w \in deployed :
       /\ (cpc[w] = "handler" /\ cpc'[w] = "routed" /\ loc[w].outcome = "NotReady")
          => not_ready_counts'[w] =
               IF not_ready_counts[w] + 1 >= NotReadyLimit THEN 0
               ELSE not_ready_counts[w] + 1
       /\ (cpc[w] = "handler" /\ cpc'[w] = "routed"
             /\ loc[w].outcome \in {"Failed", "Raised"})
          => not_ready_counts'[w] = not_ready_counts[w]
       /\ (cpc[w] = "route_success" /\ cpc'[w] = "routed")
          => not_ready_counts'[w] =
               IF route'[w].final THEN 0 ELSE not_ready_counts[w]
       /\ not_ready_counts'[w] # not_ready_counts[w]
          => (cpc[w] \in {"handler", "route_success"} /\ cpc'[w] = "routed")
    ]_vars

\* A later delivery of a message that was NotReady before has failed, and
\* the count of the earlier NotReady outcome is still held
C40_Witness ==
  \E w \in Workers : /\ Routed(w, {"Failed", "Raised"})
                     /\ not_ready_counts[w] > 0
====
